---- MODULE Spec2Model ----
(***************************************************************************)
(* era5vis: the request-hashing cache in front of the ERA5 download.       *)
(*                                                                         *)
(*   era5vis/utils/hashing.py            request_hash                      *)
(*   era5vis/data_access/era5_request.py Era5Request, to_dict              *)
(*   era5vis/data_access/era5_cache.py   Era5Cache.get_analysis_plots_data *)
(*   era5vis/data_access/download_era5.py download_era5_data (the CDS      *)
(*                                        client behind it is external)    *)
(*                                                                         *)
(* A Python str is a sequence of one-character strings, so that            *)
(* formatting, parsing, JSON serialisation and the UTF-8 encoding are      *)
(* computed and not assumed.  A Python value is a record [t, v]: t is the  *)
(* Python type, v the content.                                             *)
(***************************************************************************)
EXTENDS Integers, Sequences, FiniteSets, TLC

VARIABLES
  cache_dir,   \* Era5Cache.cache_dir
  fs,          \* the files of cache_dir: file name -> content
  pre,         \* fs as it was when the last call started
  last,        \* the last get_analysis_plots_data call: arguments, result, the
               \* download calls it made and what the collaborator did
  ncalls,      \* calls made so far
  resolved,    \* the calls that have returned: {[args, path]}
  dlcount,     \* target name -> times the download collaborator was invoked for it
  hfirst,      \* the first request_hash call: [request, result]
  hlast,       \* the latest request_hash call: [request, result]
  hcalls,      \* request_hash calls made so far
  outdirs,     \* the directories the HTML writers write to: path -> files
  tmpcount,    \* directories made by mkdtemp so far
  html,        \* the last call of an HTML writer
  nhtml,       \* calls of HTML writers made so far
  race,        \* two concurrent get_analysis_plots_data calls on one cache
               \* directory: the files and each call's position and result
  cli,         \* the last call of analysis_plots
  ncli,        \* calls of analysis_plots made so far
  cfg_datafile, \* cfg.datafile, the module global
  run,         \* the last run_analysis_plots call: arguments, result and the
               \* calls it made to the cache, the HTML writers and the browser
  nruns,       \* run_analysis_plots calls made so far
  era5request  \* an Era5Request object: its fields now and as constructed, the
               \* mapping to_dict gave, the attribute assignments made

vars == <<cache_dir, fs, pre, last, ncalls, resolved, dlcount,
          hfirst, hlast, hcalls, era5request, cfg_datafile, run, nruns,
          outdirs, tmpcount, html, nhtml, cli, ncli, race>>
cachevars == <<cache_dir, fs, pre, last, ncalls, resolved, dlcount>>
hashvars == <<hfirst, hlast, hcalls>>
requestvars == <<era5request>>
runvars == <<cfg_datafile, run, nruns>>
htmlvars == <<outdirs, tmpcount, html, nhtml>>
clivars == <<cli, ncli>>
racevars == <<race>>

----
(* Characters and Python values *)

\* ord(c) for the characters that occur (all ASCII, so UTF-8 is one byte each)
ord ==
  " " :> 32 @@ "\"" :> 34 @@ "," :> 44 @@ "-" :> 45 @@ "." :> 46 @@ "/" :> 47 @@
  "0" :> 48 @@ "1" :> 49 @@ "2" :> 50 @@ "3" :> 51 @@ "4" :> 52 @@ "5" :> 53 @@
  "6" :> 54 @@ "7" :> 55 @@ "8" :> 56 @@ "9" :> 57 @@ ":" :> 58 @@ "A" :> 65 @@
  "B" :> 66 @@ "C" :> 67 @@ "D" :> 68 @@ "E" :> 69 @@ "F" :> 70 @@ "G" :> 71 @@
  "H" :> 72 @@ "I" :> 73 @@ "J" :> 74 @@ "K" :> 75 @@ "L" :> 76 @@ "M" :> 77 @@
  "N" :> 78 @@ "O" :> 79 @@ "P" :> 80 @@ "Q" :> 81 @@ "R" :> 82 @@ "S" :> 83 @@
  "T" :> 84 @@ "U" :> 85 @@ "V" :> 86 @@ "W" :> 87 @@ "X" :> 88 @@ "Y" :> 89 @@
  "Z" :> 90 @@ "[" :> 91 @@ "\\" :> 92 @@ "]" :> 93 @@ "_" :> 95 @@ "a" :> 97 @@
  "b" :> 98 @@ "c" :> 99 @@ "d" :> 100 @@ "e" :> 101 @@ "f" :> 102 @@ "g" :> 103 @@
  "h" :> 104 @@ "i" :> 105 @@ "j" :> 106 @@ "k" :> 107 @@ "l" :> 108 @@ "m" :> 109 @@
  "n" :> 110 @@ "o" :> 111 @@ "p" :> 112 @@ "q" :> 113 @@ "r" :> 114 @@ "s" :> 115 @@
  "t" :> 116 @@ "u" :> 117 @@ "v" :> 118 @@ "w" :> 119 @@ "x" :> 120 @@ "y" :> 121 @@
  "z" :> 122 @@ "{" :> 123 @@ "}" :> 125

Digits == <<"0", "1", "2", "3", "4", "5", "6", "7", "8", "9">>

None == [t |-> "NoneType", v |-> <<>>]
PyStr(s) == [t |-> "str", v |-> s]
PyInt(n) == [t |-> "int", v |-> n]
PyList(xs) == [t |-> "list", v |-> xs]
PyTuple(xs) == [t |-> "tuple", v |-> xs]
\* a dict keeps its items in insertion order: <<key, value>> pairs, keys are str
PyDict(items) == [t |-> "dict", v |-> items]

\* str.encode(): the UTF-8 bytes of an ASCII string
encode(s) == [i \in 1..Len(s) |-> ord[s[i]]]

RECURSIVE nat_str(_)
nat_str(n) == IF n < 10 THEN <<Digits[n + 1]>> ELSE nat_str(n \div 10) \o <<Digits[(n % 10) + 1]>>

\* str(n) and the JSON form of an int
int_str(n) == IF n < 0 THEN <<"-">> \o nat_str(0 - n) ELSE nat_str(n)

\* the "{n:0<width>d}" format of a non-negative int
RECURSIVE zfill(_, _)
zfill(s, width) == IF Len(s) >= width THEN s ELSE zfill(<<"0">> \o s, width)

format_0d(n, width) == zfill(int_str(n), width)

\* str(x) of a str or an int
str(x) == IF x.t = "str" THEN x.v ELSE int_str(x.v)

RECURSIVE concat(_)
concat(ss) == IF ss = <<>> THEN <<>> ELSE ss[1] \o concat(Tail(ss))

----
(* json.dumps(request, sort_keys=True), default separators and ensure_ascii *)

RECURSIVE str_lt(_, _)
str_lt(a, b) ==
  IF b = <<>> THEN FALSE
  ELSE IF a = <<>> THEN TRUE
  ELSE IF ord[a[1]] # ord[b[1]] THEN ord[a[1]] < ord[b[1]]
  ELSE str_lt(Tail(a), Tail(b))

RECURSIVE insert_item(_, _)
insert_item(item, items) ==
  IF items = <<>> THEN <<item>>
  ELSE IF str_lt(item[1], items[1][1]) THEN <<item>> \o items
  ELSE <<items[1]>> \o insert_item(item, Tail(items))

\* sorted(dct.items()): by key; keys are unique, and equal keys keep their order
RECURSIVE sorted_items(_)
sorted_items(items) ==
  IF items = <<>> THEN <<>>
  ELSE insert_item(items[1], sorted_items(Tail(items)))

json_escape_char(c) ==
  IF c = "\"" THEN <<"\\", "\"">> ELSE IF c = "\\" THEN <<"\\", "\\">> ELSE <<c>>

json_str(s) == <<"\"">> \o concat([i \in 1..Len(s) |-> json_escape_char(s[i])]) \o <<"\"">>

RECURSIVE join(_, _)
join(sep, ss) ==
  IF ss = <<>> THEN <<>>
  ELSE IF Len(ss) = 1 THEN ss[1]
  ELSE ss[1] \o sep \o join(sep, Tail(ss))

RECURSIVE dumps(_, _)
dumps(obj, sort_keys) ==
  CASE obj.t = "str" -> json_str(obj.v)
    [] obj.t = "int" -> int_str(obj.v)
    [] obj.t = "NoneType" -> <<"n", "u", "l", "l">>
    [] obj.t \in {"list", "tuple"} ->
         <<"[">> \o join(<<",", " ">>, [i \in 1..Len(obj.v) |-> dumps(obj.v[i], sort_keys)])
                 \o <<"]">>
    [] obj.t = "dict" ->
         LET items == IF sort_keys THEN sorted_items(obj.v) ELSE obj.v
         IN  <<"{">> \o join(<<",", " ">>,
                             [i \in 1..Len(items) |->
                                json_str(items[i][1]) \o <<":", " ">>
                                  \o dumps(items[i][2], sort_keys)])
                     \o <<"}">>

----
(* hashlib.sha256 (FIPS 180-4).  A 32-bit word is <<high 16 bits, low 16   *)
(* bits>>.                                                                 *)

RECURSIVE Xor3(_, _, _, _)
Xor3(a, b, c, n) ==
  IF n = 0 THEN 0
  ELSE ((a + b + c) % 2) + 2 * Xor3(a \div 2, b \div 2, c \div 2, n - 1)

RECURSIVE ChBits(_, _, _, _)
ChBits(e, f, g, n) ==
  IF n = 0 THEN 0
  ELSE (IF e % 2 = 1 THEN f % 2 ELSE g % 2)
         + 2 * ChBits(e \div 2, f \div 2, g \div 2, n - 1)

RECURSIVE MajBits(_, _, _, _)
MajBits(a, b, c, n) ==
  IF n = 0 THEN 0
  ELSE (((a % 2) + (b % 2) + (c % 2)) \div 2)
         + 2 * MajBits(a \div 2, b \div 2, c \div 2, n - 1)

Rotr(w, n) ==
  LET hi == IF n >= 16 THEN w[2] ELSE w[1]
      lo == IF n >= 16 THEN w[1] ELSE w[2]
      k  == n % 16
      p  == 2 ^ k
      q  == 2 ^ (16 - k)
  IN  IF k = 0 THEN <<hi, lo>>
      ELSE << (hi \div p) + (lo % p) * q, (lo \div p) + (hi % p) * q >>

Shr(w, n) ==
  LET p == 2 ^ n
      q == 2 ^ (16 - n)
  IN  << w[1] \div p, (w[2] \div p) + (w[1] % p) * q >>

WXor3(x, y, z) == << Xor3(x[1], y[1], z[1], 16), Xor3(x[2], y[2], z[2], 16) >>
Ch(x, y, z) == << ChBits(x[1], y[1], z[1], 16), ChBits(x[2], y[2], z[2], 16) >>
Maj(x, y, z) == << MajBits(x[1], y[1], z[1], 16), MajBits(x[2], y[2], z[2], 16) >>

Add32(x, y) ==
  LET lo == x[2] + y[2]
  IN  << (x[1] + y[1] + (lo \div 65536)) % 65536, lo % 65536 >>

BigSigma0(x) == WXor3(Rotr(x, 2), Rotr(x, 13), Rotr(x, 22))
BigSigma1(x) == WXor3(Rotr(x, 6), Rotr(x, 11), Rotr(x, 25))
SmallSigma0(x) == WXor3(Rotr(x, 7), Rotr(x, 18), Shr(x, 3))
SmallSigma1(x) == WXor3(Rotr(x, 17), Rotr(x, 19), Shr(x, 10))

K256 ==
  <<
    <<17034, 12184>>, <<28983, 17553>>, <<46528, 64463>>, <<59829, 56229>>,
    <<14678, 49755>>, <<23025, 4593>>, <<37439, 33444>>, <<43804, 24277>>,
    <<55303, 43672>>, <<4739, 23297>>, <<9265, 34238>>, <<21772, 32195>>,
    <<29374, 23924>>, <<32990, 45566>>, <<39900, 1703>>, <<49563, 61812>>,
    <<58523, 27073>>, <<61374, 18310>>, <<4033, 40390>>, <<9228, 41420>>,
    <<11753, 11375>>, <<19060, 33962>>, <<23728, 43484>>, <<30457, 35034>>,
    <<38974, 20818>>, <<43057, 50797>>, <<45059, 10184>>, <<48985, 32711>>,
    <<50912, 3059>>, <<54695, 37191>>, <<1738, 25425>>, <<5161, 10599>>,
    <<10167, 2693>>, <<11803, 8504>>, <<19756, 28156>>, <<21304, 3347>>,
    <<25866, 29524>>, <<30314, 2747>>, <<33218, 51502>>, <<37490, 11397>>,
    <<41663, 59553>>, <<43034, 26187>>, <<49739, 35696>>, <<51052, 20899>>,
    <<53650, 59417>>, <<54937, 1572>>, <<62478, 13701>>, <<4202, 41072>>,
    <<6564, 49430>>, <<7735, 27656>>, <<10056, 30540>>, <<13488, 48309>>,
    <<14620, 3251>>, <<20184, 43594>>, <<23452, 51791>>, <<26670, 28659>>,
    <<29839, 33518>>, <<30885, 25455>>, <<33992, 30740>>, <<36039, 520>>,
    <<37054, 65530>>, <<42064, 27883>>, <<48889, 41975>>, <<50801, 30962>>
  >>

H256 ==
  <<
    <<27145, 58983>>, <<47975, 44677>>, <<15470, 62322>>, <<42319, 62778>>,
    <<20750, 21119>>, <<39685, 26764>>, <<8067, 55723>>, <<23520, 52505>>
  >>

RECURSIVE Schedule(_)
Schedule(w) ==
  IF Len(w) = 64 THEN w
  ELSE LET t == Len(w) + 1
       IN  Schedule(Append(w, Add32(Add32(SmallSigma1(w[t - 2]), w[t - 7]),
                                    Add32(SmallSigma0(w[t - 15]), w[t - 16]))))

\* (Len(s) # 8 never holds: the test makes TLC evaluate s round by round)
RECURSIVE Rounds(_, _, _)
Rounds(s, w, t) ==
  IF t > 64 \/ Len(s) # 8 THEN s
  ELSE LET t1 == Add32(Add32(Add32(s[8], BigSigma1(s[5])),
                             Add32(Ch(s[5], s[6], s[7]), K256[t])), w[t])
           t2 == Add32(BigSigma0(s[1]), Maj(s[1], s[2], s[3]))
       IN  Rounds(<<Add32(t1, t2), s[1], s[2], s[3], Add32(s[4], t1), s[5], s[6], s[7]>>,
                  w, t + 1)

Compress(h, block) ==
  LET s == Rounds(h, Schedule(block), 1)
  IN  [i \in 1..8 |-> Add32(h[i], s[i])]

Sha256Pad(bytes) ==
  LET n == Len(bytes)
      z == (119 - (n % 64)) % 64
      bits == n * 8
  IN  bytes \o <<128>> \o [i \in 1..z |-> 0] \o <<0, 0, 0, 0>>
        \o << (bits \div 16777216) % 256, (bits \div 65536) % 256,
              (bits \div 256) % 256, bits % 256 >>

Block(m, b) ==
  [i \in 1..16 |->
     LET o == 64 * (b - 1) + 4 * (i - 1)
     IN  << m[o + 1] * 256 + m[o + 2], m[o + 3] * 256 + m[o + 4] >>]

\* (h = <<>> never holds: the test makes TLC evaluate h block by block)
RECURSIVE Blocks(_, _, _)
Blocks(h, m, b) ==
  IF 64 * (b - 1) >= Len(m) \/ h = <<>> THEN h
  ELSE Blocks(Compress(h, Block(m, b)), m, b + 1)

sha256(bytes) == Blocks(H256, Sha256Pad(bytes), 1)

HexDigits == <<"0", "1", "2", "3", "4", "5", "6", "7", "8", "9", "a", "b", "c", "d", "e", "f">>

Hex16(x) ==
  << HexDigits[(x \div 4096) + 1], HexDigits[((x \div 256) % 16) + 1],
     HexDigits[((x \div 16) % 16) + 1], HexDigits[(x % 16) + 1] >>

\* the 64 hexadecimal characters of the eight words
hexdigest(h) == concat([i \in 1..8 |-> Hex16(h[i][1]) \o Hex16(h[i][2])])

----
(* era5vis/data_access/era5_request.py *)

Era5Request(product_type, variable, year, month, day, time, pressure_level, data_format, download_format, area) ==
  [product_type |-> product_type, variable |-> variable, year |-> year,
   month |-> month, day |-> day, time |-> time, pressure_level |-> pressure_level,
   data_format |-> data_format, download_format |-> download_format, area |-> area]

\* to_dict with the values of month and day exchanged
to_dict_swapped(self) ==
  PyDict(<< <<<<"p", "r", "o", "d", "u", "c", "t", "_", "t", "y", "p", "e">>, self.product_type>>,
            <<<<"v", "a", "r", "i", "a", "b", "l", "e">>, self.variable>>,
            <<<<"y", "e", "a", "r">>, self.year>>,
            <<<<"m", "o", "n", "t", "h">>, self.day>>,
            <<<<"d", "a", "y">>, self.month>>,
            <<<<"t", "i", "m", "e">>, self.time>>,
            <<<<"p", "r", "e", "s", "s", "u", "r", "e", "_", "l", "e", "v", "e", "l">>, self.pressure_level>>,
            <<<<"d", "a", "t", "a", "_", "f", "o", "r", "m", "a", "t">>, self.data_format>>,
            <<<<"d", "o", "w", "n", "l", "o", "a", "d", "_", "f", "o", "r", "m", "a", "t">>, self.download_format>>,
            <<<<"a", "r", "e", "a">>, self.area>> >>)

to_dict(self) ==
  PyDict(<< <<<<"p", "r", "o", "d", "u", "c", "t", "_", "t", "y", "p", "e">>, self.product_type>>,
            <<<<"v", "a", "r", "i", "a", "b", "l", "e">>, self.variable>>,
            <<<<"y", "e", "a", "r">>, self.year>>,
            <<<<"m", "o", "n", "t", "h">>, self.month>>,
            <<<<"d", "a", "y">>, self.day>>,
            <<<<"t", "i", "m", "e">>, self.time>>,
            <<<<"p", "r", "e", "s", "s", "u", "r", "e", "_", "l", "e", "v", "e", "l">>, self.pressure_level>>,
            <<<<"d", "a", "t", "a", "_", "f", "o", "r", "m", "a", "t">>, self.data_format>>,
            <<<<"d", "o", "w", "n", "l", "o", "a", "d", "_", "f", "o", "r", "m", "a", "t">>, self.download_format>>,
            <<<<"a", "r", "e", "a">>, self.area>> >>)

----
(* era5vis/data_access/era5_cache.py *)

ALL_PRESSURE_LEVELS ==
  PyList(<< PyStr(<<"1", "0", "0", "0">>), PyStr(<<"9", "7", "5">>), PyStr(<<"9", "5", "0">>), PyStr(<<"9", "2", "5">>), PyStr(<<"9", "0", "0">>),
            PyStr(<<"8", "7", "5">>), PyStr(<<"8", "5", "0">>),
            PyStr(<<"8", "2", "5">>), PyStr(<<"8", "0", "0">>), PyStr(<<"7", "7", "5">>), PyStr(<<"7", "5", "0">>), PyStr(<<"7", "0", "0">>),
            PyStr(<<"6", "5", "0">>), PyStr(<<"6", "0", "0">>),
            PyStr(<<"5", "5", "0">>), PyStr(<<"5", "0", "0">>), PyStr(<<"4", "5", "0">>), PyStr(<<"4", "0", "0">>), PyStr(<<"3", "5", "0">>),
            PyStr(<<"3", "0", "0">>),
            PyStr(<<"2", "5", "0">>), PyStr(<<"2", "2", "5">>), PyStr(<<"2", "0", "0">>), PyStr(<<"1", "7", "5">>), PyStr(<<"1", "5", "0">>),
            PyStr(<<"1", "2", "5">>), PyStr(<<"1", "0", "0">>) >>)

\* Path.cwd(), as a string
cwd == <<"/", "h", "o", "m", "e", "/", "u", "s", "e", "r">>

\* Era5Cache.__init__: cache_dir or Path.cwd()
Era5Cache(dir) == IF dir.t = "NoneType" THEN cwd ELSE dir.v

\* a path inside a directory: [dir, name]; str(path) is dir + "/" + name
NoPath == [dir |-> <<>>, name |-> <<>>]
path_str(p) == p.dir \o <<"/">> \o p.name

\* exists, were a file without content taken for no file: target.exists() and
\* target.stat().st_size > 0
exists_nonempty(files, path) == path.name \in DOMAIN files /\ files[path.name] # "empty"

\* Path.exists() for a file of cache_dir
exists(files, path) == path.name \in DOMAIN files

\* pd.to_datetime(time) for a string; the strings that occur are of the ISO form
\* YYYY-MM-DDTHH:MM or no date at all (pandas then raises)
is_digit(c) == \E i \in 1..10 : Digits[i] = c

RECURSIVE parse_int(_)
parse_int(s) ==
  IF s = <<>> THEN 0 ELSE 10 * parse_int(SubSeq(s, 1, Len(s) - 1)) + (ord[s[Len(s)]] - 48)

to_datetime(time) ==
  LET s == time.v
      wellformed == /\ Len(s) = 16
                    /\ s[5] = "-" /\ s[8] = "-" /\ s[11] = "T" /\ s[14] = ":"
                    /\ \A i \in {1, 2, 3, 4, 6, 7, 9, 10, 12, 13, 15, 16} : is_digit(s[i])
      t == [ok |-> TRUE,
            year |-> parse_int(SubSeq(s, 1, 4)), month |-> parse_int(SubSeq(s, 6, 7)),
            day |-> parse_int(SubSeq(s, 9, 10)), hour |-> parse_int(SubSeq(s, 12, 13)),
            minute |-> parse_int(SubSeq(s, 15, 16))]
  IN  IF wellformed /\ t.month \in 1..12 /\ t.day \in 1..31 /\ t.hour \in 0..23
           /\ t.minute \in 0..59
      THEN t
      ELSE [ok |-> FALSE, year |-> 0, month |-> 0, day |-> 0, hour |-> 0, minute |-> 0]

\* lines 89-98 without the branch of line 90: [str(level)] for a level of None
pressure_levels_no_column(level) ==
  IF level.t = "NoneType" THEN PyList(<<PyStr(<<"N", "o", "n", "e">>)>>)
  ELSE IF level.t \in {"list", "tuple"}
       THEN PyList([i \in 1..Len(level.v) |-> PyStr(str(level.v[i]))])
       ELSE PyList(<<PyStr(str(level))>>)

\* sorted(xs) for a list of ints
RECURSIVE sorted_ints(_)
sorted_ints(xs) ==
  IF xs = <<>> THEN <<>>
  ELSE LET least == CHOOSE i \in 1..Len(xs) : \A j \in 1..Len(xs) : xs[i].v <= xs[j].v
       IN  <<xs[least]>> \o sorted_ints([k \in 1..(Len(xs) - 1) |-> IF k < least THEN xs[k] ELSE xs[k + 1]])

\* lines 89-98 with sorted(level) for level in line 96
pressure_levels_sorted(level) ==
  IF level.t = "NoneType" THEN ALL_PRESSURE_LEVELS
  ELSE IF level.t \in {"list", "tuple"}
       THEN PyList([i \in 1..Len(level.v) |-> PyStr(str(sorted_ints(level.v)[i]))])
       ELSE PyList(<<PyStr(str(level))>>)

\* lines 89-98 without the str() of lines 96 and 98
pressure_levels_unconverted(level) ==
  IF level.t = "NoneType" THEN ALL_PRESSURE_LEVELS
  ELSE IF level.t \in {"list", "tuple"}
       THEN PyList(level.v)
       ELSE PyList(<<level>>)

\* lines 89-98: the pressure levels of the request
pressure_levels_for(level) ==
  IF level.t = "NoneType" THEN ALL_PRESSURE_LEVELS
  ELSE IF level.t \in {"list", "tuple"}
       THEN PyList([i \in 1..Len(level.v) |-> PyStr(str(level.v[i]))])
       ELSE PyList(<<PyStr(str(level))>>)

\* lines 100-112 with str(t.month) and str(t.day) for the formats of lines 104-105
build_request_unpadded(variables, pressure_levels, t) ==
  Era5Request(PyList(<<PyStr(<<"r", "e", "a", "n", "a", "l", "y", "s", "i", "s">>)>>),
              variables,
              PyList(<<PyStr(format_0d(t.year, 4))>>),
              PyList(<<PyStr(int_str(t.month))>>),
              PyList(<<PyStr(int_str(t.day))>>),
              PyList(<<PyStr(format_0d(t.hour, 2) \o <<":", "0", "0">>)>>),
              pressure_levels,
              PyStr(<<"n", "e", "t", "c", "d", "f">>),
              PyStr(<<"u", "n", "a", "r", "c", "h", "i", "v", "e", "d">>),
              PyList(<<PyInt(70), PyInt(-20), PyInt(30), PyInt(50)>>))

\* lines 100-112 with the minutes of the time in line 107: f"{t.hour:02d}:{t.minute:02d}"
build_request_minutes(variables, pressure_levels, t) ==
  Era5Request(PyList(<<PyStr(<<"r", "e", "a", "n", "a", "l", "y", "s", "i", "s">>)>>),
              variables,
              PyList(<<PyStr(format_0d(t.year, 4))>>),
              PyList(<<PyStr(format_0d(t.month, 2))>>),
              PyList(<<PyStr(format_0d(t.day, 2))>>),
              PyList(<<PyStr(format_0d(t.hour, 2) \o <<":">> \o format_0d(t.minute, 2))>>),
              pressure_levels,
              PyStr(<<"n", "e", "t", "c", "d", "f">>),
              PyStr(<<"u", "n", "a", "r", "c", "h", "i", "v", "e", "d">>),
              PyList(<<PyInt(70), PyInt(-20), PyInt(30), PyInt(50)>>))

\* lines 100-112: the request built for a parsed time t
build_request(variables, pressure_levels, t) ==
  Era5Request(PyList(<<PyStr(<<"r", "e", "a", "n", "a", "l", "y", "s", "i", "s">>)>>),
              variables,
              PyList(<<PyStr(format_0d(t.year, 4))>>),
              PyList(<<PyStr(format_0d(t.month, 2))>>),
              PyList(<<PyStr(format_0d(t.day, 2))>>),
              PyList(<<PyStr(format_0d(t.hour, 2) \o <<":", "0", "0">>)>>),
              pressure_levels,
              PyStr(<<"n", "e", "t", "c", "d", "f">>),
              PyStr(<<"u", "n", "a", "r", "c", "h", "i", "v", "e", "d">>),
              PyList(<<PyInt(70), PyInt(-20), PyInt(30), PyInt(50)>>))

\* line 119: self.cache_dir / f"era5_{key}.nc"
target_path(dir, key) == [dir |-> dir, name |-> <<"e", "r", "a", "5", "_">> \o key \o <<".", "n", "c">>]

----
(* The download collaborator, era5vis/data_access/download_era5.py:        *)
(* client.retrieve(dataset, request, target).  What the CDS client does is *)
(* not this repository's: it writes the target and returns, returns        *)
(* without writing it, or raises, with nothing or a part of the file       *)
(* written.  A file's content is "empty", "partial" or "data".             *)

DownloadOutcomes == {"written", "nothing", "raised", "raised_partial"}

\* an empty directory
NoFiles == [n \in {} |-> "empty"]

write_file(files, name, content) ==
  [n \in DOMAIN files \cup {name} |-> IF n = name THEN content ELSE files[n]]

download_era5_data(request, target, files, outcome) ==
  [files |-> CASE outcome = "written" -> write_file(files, target.name, "data")
               [] outcome = "raised_partial" -> write_file(files, target.name, "partial")
               [] OTHER -> files,
   raised |-> outcome \in {"raised", "raised_partial"}]

----
(* The arguments the calls are made with *)

tmp_path == <<"/", "t", "m", "p", "/", "p", "y", "t", "e", "s", "t", "-", "0">>

Variables ==
  { PyStr(<<"t">>),
    PyList(<<PyStr(<<"t">>)>>) }

Levels == { None, PyInt(850), PyList(<<PyInt(850), PyInt(500)>>) }

Times ==
  { None,
    PyStr(<<"2", "0", "2", "5", "-", "0", "3", "-", "0", "2", "T", "0", "0", ":", "0", "0">>),
    PyStr(<<"2", "0", "2", "5", "-", "1", "2", "-", "0", "1", "T", "1", "3", ":", "3", "0">>),
    PyStr(<<"n", "o", "t", " ", "a", " ", "d", "a", "t", "e">>) }


Calls == {<<variables, level, time>> : variables \in Variables, level \in Levels, time \in Times}

\* analysis_plots.py 157-184: the calls run_analysis_plots makes to the cache
SKEWT_LEVELS ==
  PyList(<< PyInt(1000), PyInt(975), PyInt(950), PyInt(925), PyInt(900), PyInt(875),
            PyInt(850), PyInt(825), PyInt(800), PyInt(775), PyInt(750), PyInt(700),
            PyInt(650), PyInt(600), PyInt(550), PyInt(500), PyInt(450), PyInt(400),
            PyInt(350), PyInt(300), PyInt(250), PyInt(200), PyInt(150), PyInt(100) >>)

VERT_CROSS_VARIABLES ==
  PyList(<<PyStr(<<"g", "e", "o", "p", "o", "t", "e", "n", "t", "i", "a", "l">>), PyStr(<<"t", "e", "m", "p", "e", "r", "a", "t", "u", "r", "e">>), PyStr(<<"u">>), PyStr(<<"v">>)>>)

SKEWT_VARIABLES ==
  PyList(<<PyStr(<<"t">>), PyStr(<<"q">>), PyStr(<<"u">>), PyStr(<<"v">>)>>)

RunTimes == { None, PyStr(<<"2", "0", "2", "5", "-", "0", "3", "-", "0", "2", "T", "0", "0", ":", "0", "0">>) }

RunCalls ==
  { <<PyList(<<PyStr(<<"t">>), PyStr(<<"u">>), PyStr(<<"v">>)>>), PyInt(850), time>> :
      time \in RunTimes }
    \cup { <<VERT_CROSS_VARIABLES, None, time>> : time \in RunTimes }
    \cup { <<SKEWT_VARIABLES, SKEWT_LEVELS, time>> : time \in RunTimes }

\* calls that differ in the form of the level or in the minutes of the time:
\* one level as an int, in a list, in a tuple and as a string, two levels in
\* both orders, and two times of one hour and one of the next
KeyLevels ==
  { PyInt(850), PyList(<<PyInt(850)>>), PyTuple(<<PyInt(850)>>), PyStr(<<"8", "5", "0">>),
    PyList(<<PyInt(850), PyInt(500)>>), PyList(<<PyInt(500), PyInt(850)>>) }

KeyTimes == { PyStr(<<"2", "0", "2", "5", "-", "1", "2", "-", "0", "1", "T", "1", "3", ":", "3", "0">>), PyStr(<<"2", "0", "2", "5", "-", "1", "2", "-", "0", "1", "T", "1", "3", ":", "0", "5">>), PyStr(<<"2", "0", "2", "5", "-", "1", "2", "-", "0", "1", "T", "1", "4", ":", "0", "5">>) }

KeyCalls == {<<PyList(<<PyStr(<<"t">>)>>), level, time>> : level \in KeyLevels, time \in KeyTimes}

\* lines 86-115 for a time that parses: the request dictionary
request_dict(variables, level, t) ==
  to_dict(build_request(variables, pressure_levels_for(level), t))

----
(* The mappings request_hash is called with on its own: the keys of        *)
(* tests/test_hashing.py, in every insertion order.                        *)

HashItems ==
  { <<<<"v", "a", "r", "i", "a", "b", "l", "e">>, PyList(<<PyStr(<<"t">>)>>)>>,
    <<<<"v", "a", "r", "i", "a", "b", "l", "e">>, PyStr(<<"t">>)>>,
    <<<<"p", "r", "e", "s", "s", "u", "r", "e", "_", "l", "e", "v", "e", "l">>, PyList(<<PyStr(<<"8", "5", "0">>)>>)>>,
    <<<<"p", "r", "e", "s", "s", "u", "r", "e", "_", "l", "e", "v", "e", "l">>, PyList(<<PyInt(850)>>)>>,
    <<<<"y", "e", "a", "r">>, PyList(<<PyStr(<<"2", "0", "2", "2">>)>>)>>,
    <<<<"y", "e", "a", "r">>, PyList(<<PyStr(<<"2", "0", "2", "3">>)>>)>> }

\* a dict has each key once
distinct_keys(items) ==
  \A i, j \in 1..Len(items) : i # j => items[i][1] # items[j][1]

HashInputs ==
  { PyDict(items) : items \in
      {s \in UNION {[1..n -> HashItems] : n \in 0..3} : distinct_keys(s)} }

----
(* era5vis/utils/hashing.py *)

\* json.dumps(request) without sort_keys
payload_unsorted(request) == encode(dumps(request, FALSE))

\* json.dumps(sorted(request)): the keys alone
payload_keys(request) ==
  encode(dumps(PyList([i \in 1..Len(request.v) |-> PyStr(sorted_items(request.v)[i][1])]), TRUE))

payload(request) == encode(dumps(request, TRUE))

\* the payloads that occur, and hashlib.sha256(payload).hexdigest() computed once
\* for each
Payloads ==
  {payload(m) : m \in HashInputs}
    \cup {payload(request_dict(a[1], a[2], to_datetime(a[3]))) :
            a \in {b \in Calls \cup RunCalls \cup KeyCalls :
                     b[3].t = "str" /\ to_datetime(b[3]).ok}}

sha256_hexdigest == [p \in Payloads |-> hexdigest(sha256(p))]

\* hexdigest()[:8]
request_hash_8(request) == SubSeq(sha256_hexdigest[payload(request)], 1, 8)

request_hash(request) == SubSeq(sha256_hexdigest[payload(request)], 1, 12)

----
(* Era5Cache.get_analysis_plots_data *)

Return(path) == [kind |-> "return", type |-> "", msg |-> <<>>, value |-> path]
Raise(type, msg) == [kind |-> "raise", type |-> type, msg |-> msg, value |-> NoPath]

\* lines 82-117 without the check of lines 83-84: a time of None is handed to
\* the parsing like any other value
prepare_unchecked(variables, level, time) ==
  LET t == IF time.t = "NoneType" THEN [ok |-> FALSE] ELSE to_datetime(time)
  IN  IF ~t.ok
      THEN [error |-> Raise("DateParseError", <<"U", "n", "k", "n", "o", "w", "n", " ", "d", "a", "t", "e", "t", "i", "m", "e", " ", "s", "t", "r", "i", "n", "g", " ", "f", "o", "r", "m", "a", "t">>),
            req_dict |-> None, key |-> <<>>]
      ELSE LET req_dict == request_dict(variables, level, t)
           IN  [error |-> Return(NoPath), req_dict |-> req_dict,
                key |-> request_hash(req_dict)]

\* lines 82-117, which read no state: the error raised there, or the request
\* dictionary and its key
prepare(variables, level, time) ==
  IF time.t = "NoneType"
  THEN [error |-> Raise("ValueError", <<"t", "i", "m", "e", " ", "n", "o", "t", " ", "a", "v", "a", "i", "l", "a", "b", "l", "e">>), req_dict |-> None, key |-> <<>>]
  ELSE LET t == to_datetime(time)
       IN  IF ~t.ok
           THEN [error |-> Raise("DateParseError", <<"U", "n", "k", "n", "o", "w", "n", " ", "d", "a", "t", "e", "t", "i", "m", "e", " ", "s", "t", "r", "i", "n", "g", " ", "f", "o", "r", "m", "a", "t">>),
                 req_dict |-> None, key |-> <<>>]
           ELSE LET req_dict == request_dict(variables, level, t)
                IN  [error |-> Return(NoPath), req_dict |-> req_dict,
                     key |-> request_hash(req_dict)]

\* prepare, computed once for each argument triple
prepared == [a \in Calls \cup RunCalls \cup KeyCalls |-> prepare(a[1], a[2], a[3])]

\* the default target of download_era5_data
default_target(dir) == [dir |-> dir, name |-> <<"e", "r", "a", "5", "_", "d", "o", "w", "n", "l", "o", "a", "d", ".", "n", "c">>]

\* lines 125-132 with the target left out of the call of line 126
download_default_target(req_dict, target, files, outcome) ==
  LET d == download_era5_data(req_dict, default_target(target.dir), files, outcome)
      call == [request |-> req_dict, target |-> default_target(target.dir)]
  IN  IF d.raised
      THEN [result |-> Raise("CdsError", <<>>), files |-> d.files, req_dict |-> req_dict,
            target |-> target, downloads |-> <<call>>]
      ELSE IF ~exists(d.files, target)
      THEN [result |-> Raise("RuntimeError", <<"E", "R", "A", "5", " ", "d", "o", "w", "n", "l", "o", "a", "d", " ", "f", "a", "i", "l", "e", "d", ":", " ">> \o path_str(target)),
            files |-> d.files, req_dict |-> req_dict,
            target |-> target, downloads |-> <<call>>]
      ELSE [result |-> Return(target), files |-> d.files, req_dict |-> req_dict,
            target |-> target, downloads |-> <<call>>]

\* lines 125-132 without the check of lines 129-130
download_unverified(req_dict, target, files, outcome) ==
  LET d == download_era5_data(req_dict, target, files, outcome)
      call == [request |-> req_dict, target |-> target]
  IN  IF d.raised
      THEN [result |-> Raise("CdsError", <<>>), files |-> d.files, req_dict |-> req_dict,
            target |-> target, downloads |-> <<call>>]
      ELSE [result |-> Return(target), files |-> d.files, req_dict |-> req_dict,
            target |-> target, downloads |-> <<call>>]

\* lines 125-132 with the download made to <target>.part, renamed to the
\* target when the collaborator returns
part_path(target) == [dir |-> target.dir, name |-> target.name \o <<".", "p", "a", "r", "t">>]

download_via_part(req_dict, target, files, outcome) ==
  LET d == download_era5_data(req_dict, part_path(target), files, outcome)
      call == [request |-> req_dict, target |-> target]
      renamed == IF exists(d.files, part_path(target))
                 THEN [n \in (DOMAIN d.files \ {part_path(target).name}) \cup {target.name} |->
                         IF n = target.name THEN d.files[part_path(target).name]
                         ELSE d.files[n]]
                 ELSE d.files
  IN  IF d.raised
      THEN [result |-> Raise("CdsError", <<>>), files |-> d.files, req_dict |-> req_dict,
            target |-> target, downloads |-> <<call>>]
      ELSE IF ~exists(renamed, target)
      THEN [result |-> Raise("RuntimeError", <<>>),
            files |-> renamed, req_dict |-> req_dict,
            target |-> target, downloads |-> <<call>>]
      ELSE [result |-> Return(target), files |-> renamed, req_dict |-> req_dict,
            target |-> target, downloads |-> <<call>>]

\* lines 125-132 with a second attempt when the first one fails
download_retry(req_dict, target, files, outcome) ==
  LET d == download_era5_data(req_dict, target, files, outcome)
      call == [request |-> req_dict, target |-> target]
  IN  IF d.raised
      THEN [result |-> Raise("CdsError", <<>>), files |-> d.files, req_dict |-> req_dict,
            target |-> target, downloads |-> <<call, call>>]
      ELSE IF ~exists(d.files, target)
      THEN [result |-> Raise("RuntimeError", <<"E", "R", "A", "5", " ", "d", "o", "w", "n", "l", "o", "a", "d", " ", "f", "a", "i", "l", "e", "d", ":", " ">> \o path_str(target)),
            files |-> d.files, req_dict |-> req_dict,
            target |-> target, downloads |-> <<call, call>>]
      ELSE [result |-> Return(target), files |-> d.files, req_dict |-> req_dict,
            target |-> target, downloads |-> <<call>>]

\* lines 125-132 for a target that does not exist: the download and the check
\* of what it left.  The result: what the call returns or raises, the files
\* afterwards, and the calls made to the download collaborator
download_and_verify(req_dict, target, files, outcome) ==
  LET d == download_era5_data(req_dict, target, files, outcome)
      call == [request |-> req_dict, target |-> target]
  IN  IF d.raised
      THEN [result |-> Raise("CdsError", <<>>), files |-> d.files, req_dict |-> req_dict,
            target |-> target, downloads |-> <<call>>]
      ELSE IF ~exists(d.files, target)
      THEN [result |-> Raise("RuntimeError", <<"E", "R", "A", "5", " ", "d", "o", "w", "n", "l", "o", "a", "d", " ", "f", "a", "i", "l", "e", "d", ":", " ">> \o path_str(target)),
            files |-> d.files, req_dict |-> req_dict,
            target |-> target, downloads |-> <<call>>]
      ELSE [result |-> Return(target), files |-> d.files, req_dict |-> req_dict,
            target |-> target, downloads |-> <<call>>]

\* lines 82-132 without the reuse of lines 122-123
get_analysis_plots_data_no_reuse(self, files, variables, level, time, outcome) ==
  LET p == prepared[<<variables, level, time>>]
      target == target_path(self, p.key)
  IN  IF p.error.kind = "raise"
      THEN [result |-> p.error, files |-> files, req_dict |-> p.req_dict,
            target |-> NoPath, downloads |-> <<>>]
      ELSE download_and_verify(p.req_dict, target, files, outcome)

\* lines 82-132
get_analysis_plots_data(self, files, variables, level, time, outcome) ==
  LET p == prepared[<<variables, level, time>>]
      target == target_path(self, p.key)
  IN  IF p.error.kind = "raise"
      THEN [result |-> p.error, files |-> files, req_dict |-> p.req_dict,
            target |-> NoPath, downloads |-> <<>>]
      ELSE IF exists(files, target)
      THEN [result |-> Return(target), files |-> files, req_dict |-> p.req_dict,
            target |-> target, downloads |-> <<>>]
      ELSE download_and_verify(p.req_dict, target, files, outcome)

----
(* The cache as a state machine: calls of get_analysis_plots_data on one   *)
(* Era5Cache, one after the other.                                         *)

MaxCalls == 2

NoCall ==
  [variables |-> None, level |-> None, time |-> None, result |-> Raise("", <<>>),
   req_dict |-> None, target |-> NoPath, downloads |-> <<>>, outcome |-> "",
   made |-> FALSE]

\* the names the cache files of the arguments above get
TargetNames ==
  { target_path(<<>>, prepared[a].key).name :
      a \in {b \in Calls \cup KeyCalls : prepared[b].error.kind = "return"} }

\* tests/test_era5cache.py touches the cache file of its request before the call:
\* the requests of the tests, ("t", 850, time)
TouchedNames ==
  { target_path(<<>>, prepared[a].key).name :
      a \in {b \in Calls : /\ prepared[b].error.kind = "return"
                            /\ b[1] = PyStr(<<"t">>) /\ b[2] = PyInt(850)} }

InitCache ==
  /\ cache_dir \in {Era5Cache(None), Era5Cache(PyStr(tmp_path))}
  \* cache_dir is empty, or holds one empty file that was touched
  /\ fs \in {NoFiles} \cup {write_file(NoFiles, n, "empty") : n \in TouchedNames}
  /\ pre = fs
  /\ last = NoCall
  /\ ncalls = 0
  /\ resolved = {}
  /\ dlcount = [n \in TargetNames |-> 0]

Call(variables, level, time, outcome) ==
  /\ ncalls < MaxCalls
  /\ \E r \in {get_analysis_plots_data(cache_dir, fs, variables, level, time, outcome)} :
         /\ fs' = r.files
         /\ pre' = fs
         /\ last' = [variables |-> variables, level |-> level, time |-> time,
                     result |-> r.result, req_dict |-> r.req_dict, target |-> r.target,
                     downloads |-> r.downloads,
                     outcome |-> IF r.downloads = <<>> THEN "" ELSE outcome,
                     made |-> TRUE]
         /\ resolved' = IF r.result.kind = "return"
                        THEN resolved \cup {[variables |-> variables, level |-> level,
                                             time |-> time, path |-> r.result.value]}
                        ELSE resolved
         /\ dlcount' = IF r.downloads = <<>> THEN dlcount
                       ELSE [dlcount EXCEPT ![r.target.name] = @ + 1]
  /\ ncalls' = ncalls + 1
  /\ UNCHANGED <<cache_dir, hashvars, requestvars, runvars, htmlvars, clivars, racevars>>

----
(* request_hash as a state machine: calls one after the other *)

MaxHashCalls == 3

NoHash == [request |-> PyDict(<<>>), result |-> <<>>]

InitHash ==
  /\ hfirst = NoHash
  /\ hlast = NoHash
  /\ hcalls = 0

HashCall(m) ==
  /\ hcalls < MaxHashCalls
  /\ hlast' = [request |-> m, result |-> request_hash(m)]
  /\ hfirst' = IF hcalls = 0 THEN hlast' ELSE hfirst
  /\ hcalls' = hcalls + 1
  /\ UNCHANGED <<cachevars, requestvars, runvars, htmlvars, clivars, racevars>>

----
(* An Era5Request object from its construction to its conversion           *)

MaxSetAttr == 2

\* @dataclass without frozen=True: the generated class takes attribute
\* assignments
frozen == FALSE

\* request.<name> = value
setattr(self, name, value) ==
  IF frozen THEN self ELSE [self EXCEPT ![name] = value]

FieldNames ==
  { "product_type", "variable", "year", "month", "day", "time", "pressure_level",
    "data_format", "download_format", "area" }

\* values assigned to an attribute
FieldValues == { PyList(<<PyStr(<<"1", "9", "9", "9">>)>>), PyStr(<<"g", "r", "i", "b">>) }

NoRequest ==
  [made |-> FALSE, obj |-> None, constructed |-> None, mapping |-> None, sets |-> 0]

InitRequest == era5request = NoRequest

\* era5_cache.py 101-112: the request of a call with a time that parses
Construct(variables, level, time) ==
  /\ ~era5request.made
  /\ time.t = "str" /\ to_datetime(time).ok
  /\ LET r == build_request(variables, pressure_levels_for(level), to_datetime(time))
     IN  era5request' = [made |-> TRUE, obj |-> r, constructed |-> r, mapping |-> None, sets |-> 0]
  /\ UNCHANGED <<cachevars, hashvars, runvars, htmlvars, clivars, racevars>>

SetAttr(name, value) ==
  /\ era5request.made
  /\ era5request.mapping = None
  /\ era5request.sets < MaxSetAttr
  /\ era5request' = [era5request EXCEPT !.obj = setattr(era5request.obj, name, value),
                                !.sets = @ + 1]
  /\ UNCHANGED <<cachevars, hashvars, runvars, htmlvars, clivars, racevars>>

\* era5_cache.py 115: req_dict = request.to_dict()
ToDict ==
  /\ era5request.made
  /\ era5request.mapping = None
  /\ era5request' = [era5request EXCEPT !.mapping = to_dict(era5request.obj)]
  /\ UNCHANGED <<cachevars, hashvars, runvars, htmlvars, clivars, racevars>>

----
(* era5vis/cfg.py and era5vis/analysis_plots.py *)

pkgdata == <<"/", "s", "i", "t", "e", "-", "p", "a", "c", "k", "a", "g", "e", "s", "/", "e", "r", "a", "5", "v", "i", "s", "/", "d", "a", "t", "a">>

\* cfg.py 40-41
scalar_wind_datafile == [dir |-> pkgdata, name |-> <<"e", "r", "a", "5", "_", "e", "x", "a", "m", "p", "l", "e", "_", "d", "a", "t", "a", "s", "e", "t", ".", "n", "c">>]
skewT_datafile == [dir |-> pkgdata, name |-> <<"e", "r", "a", "5", "_", "e", "x", "a", "m", "p", "l", "e", "_", "1", ".", "n", "c">>]

\* the attributes cfg has for the example data of a plot type: cfg.py defines
\* no vert_cross_datafile
cfg_has_datafile(plot_type) == plot_type \in {"scalar_wind", "skewT"}

\* cfg.set_datafile(path): the value of the global afterwards
set_datafile(path) == path

\* the signature of run_analysis_plots with its defaults
RunDefaults ==
  [parameter |-> None, level |-> None, time |-> None, time_index |-> PyInt(0),
   plot_type |-> "scalar_wind", download_data |-> FALSE,
   u1 |-> PyStr(<<"u">>), u2 |-> PyStr(<<"v">>),
   lat |-> None, lon |-> None, lat0 |-> None, lon0 |-> None, lat1 |-> None, lon1 |-> None,
   npoints |-> PyInt(200), directory |-> None, datafile |-> None, no_browser |-> FALSE]

\* lines 112-129 without the check of lines 131-134: download_data=True is
\* accepted together with a datafile
validate_arguments_no_source_check(a) ==
  IF a.plot_type = "scalar_wind" /\ (a.parameter = None \/ a.level = None)
  THEN Raise("ValueError", <<"F", "o", "r", " ", "s", "c", "a", "l", "a", "r", "_", "w", "i", "n", "d", ",", " ", "'", "p", "a", "r", "a", "m", "e", "t", "e", "r", "'", " ", "a", "n", "d", " ", "'", "l", "e", "v", "e", "l", "'", " ", "a", "r", "e", " ", "r", "e", "q", "u", "i", "r", "e", "d", ".">>)
  ELSE IF a.plot_type = "skewT" /\ (a.lat = None \/ a.lon = None \/ a.time = None)
  THEN Raise("ValueError", <<"F", "o", "r", " ", "s", "k", "e", "w", "T", ",", " ", "'", "l", "a", "t", "'", ",", " ", "'", "l", "o", "n", "'", " ", "a", "n", "d", " ", "'", "t", "i", "m", "e", "'", " ", "a", "r", "e", " ", "r", "e", "q", "u", "i", "r", "e", "d", ".">>)
  ELSE IF a.plot_type = "vert_cross" /\ None \in {a.lat0, a.lon0, a.lat1, a.lon1}
  THEN Raise("ValueError", <<"F", "o", "r", " ", "v", "e", "r", "t", "_", "c", "r", "o", "s", "s", ",", " ", "l", "a", "t", "0", ",", " ", "l", "o", "n", "0", ",", " ", "l", "a", "t", "1", ",", " ", "a", "n", "d", " ", "l", "o", "n", "1", " ", "a", "r", "e", " ", "r", "e", "q", "u", "i", "r", "e", "d", ".">>)
  ELSE IF a.plot_type \notin {"scalar_wind", "skewT", "vert_cross"}
  THEN Raise("ValueError", <<"U", "n", "k", "n", "o", "w", "n", " ", "p", "l", "o", "t", "_", "t", "y", "p", "e">>)
  ELSE Return(NoPath)

\* lines 112-134: the ValueError raised for the arguments, or none
validate_arguments(a) ==
  IF a.plot_type = "scalar_wind" /\ (a.parameter = None \/ a.level = None)
  THEN Raise("ValueError", <<"F", "o", "r", " ", "s", "c", "a", "l", "a", "r", "_", "w", "i", "n", "d", ",", " ", "'", "p", "a", "r", "a", "m", "e", "t", "e", "r", "'", " ", "a", "n", "d", " ", "'", "l", "e", "v", "e", "l", "'", " ", "a", "r", "e", " ", "r", "e", "q", "u", "i", "r", "e", "d", ".">>)
  ELSE IF a.plot_type = "skewT" /\ (a.lat = None \/ a.lon = None \/ a.time = None)
  THEN Raise("ValueError", <<"F", "o", "r", " ", "s", "k", "e", "w", "T", ",", " ", "'", "l", "a", "t", "'", ",", " ", "'", "l", "o", "n", "'", " ", "a", "n", "d", " ", "'", "t", "i", "m", "e", "'", " ", "a", "r", "e", " ", "r", "e", "q", "u", "i", "r", "e", "d", ".">>)
  ELSE IF a.plot_type = "vert_cross" /\ None \in {a.lat0, a.lon0, a.lat1, a.lon1}
  THEN Raise("ValueError", <<"F", "o", "r", " ", "v", "e", "r", "t", "_", "c", "r", "o", "s", "s", ",", " ", "l", "a", "t", "0", ",", " ", "l", "o", "n", "0", ",", " ", "l", "a", "t", "1", ",", " ", "a", "n", "d", " ", "l", "o", "n", "1", " ", "a", "r", "e", " ", "r", "e", "q", "u", "i", "r", "e", "d", ".">>)
  ELSE IF a.plot_type \notin {"scalar_wind", "skewT", "vert_cross"}
  THEN Raise("ValueError", <<"U", "n", "k", "n", "o", "w", "n", " ", "p", "l", "o", "t", "_", "t", "y", "p", "e">>)
  ELSE IF a.download_data /\ a.datafile # None
  THEN Raise("ValueError", <<"C", "a", "n", "n", "o", "t", " ", "s", "p", "e", "c", "i", "f", "y", " ", "b", "o", "t", "h", " ", "'", "d", "o", "w", "n", "l", "o", "a", "d", "_", "d", "a", "t", "a", "=", "T", "r", "u", "e", "'", " ", "a", "n", "d", " ", "a", " ", "'", "d", "a", "t", "a", "f", "i", "l", "e", "'", ".">>)
  ELSE Return(NoPath)

\* lines 156-185: the arguments of the cache call of a plot type
cache_arguments(a) ==
  IF a.plot_type = "scalar_wind"
  THEN [variables |-> PyList(<<a.parameter, a.u1, a.u2>>), level |-> a.level, time |-> a.time]
  ELSE IF a.plot_type = "vert_cross"
  THEN [variables |-> VERT_CROSS_VARIABLES, level |-> None, time |-> a.time]
  ELSE [variables |-> SKEWT_VARIABLES, level |-> SKEWT_LEVELS, time |-> a.time]

\* lines 159-185: what the cache call with the arguments c gave, r
from_cache(c, r) ==
  [error |-> IF r.result.kind = "raise" THEN r.result ELSE Return(NoPath),
   datafile |-> r.result.value, files |-> r.files,
   cache_calls |-> <<[variables |-> c.variables, level |-> c.level, time |-> c.time,
                      req_dict |-> r.req_dict, returned |-> r.result.value]>>,
   downloads |-> r.downloads]

\* lines 136-185: the data file of the plot, the files afterwards and the call
\* made to the cache
select_datafile(a, files, outcome) ==
  IF ~a.download_data /\ a.datafile = None
  THEN [error |-> IF cfg_has_datafile(a.plot_type) THEN Return(NoPath)
                  ELSE Raise("AttributeError", <<"m", "o", "d", "u", "l", "e", " ", "'", "e", "r", "a", "5", "v", "i", "s", ".", "c", "f", "g", "'", " ", "h", "a", "s", " ", "n", "o", " ", "a", "t", "t", "r", "i", "b", "u", "t", "e", " ", "'", "v", "e", "r", "t", "_", "c", "r", "o", "s", "s", "_", "d", "a", "t", "a", "f", "i", "l", "e", "'">>),
        datafile |-> IF a.plot_type = "scalar_wind" THEN scalar_wind_datafile
                     ELSE skewT_datafile,
        files |-> files, cache_calls |-> <<>>, downloads |-> <<>>]
  ELSE from_cache(cache_arguments(a),
                  get_analysis_plots_data(Era5Cache(None), files, cache_arguments(a).variables,
                                          cache_arguments(a).level, cache_arguments(a).time,
                                          outcome))

\* what an HTML writer of core does is the writer's: it returns a path or raises
WriterOutcomes == {"index.html", "vert_cross.html", "raised"}

html_dir == <<"/", "t", "m", "p", "/", "t", "m", "p", "d", "i", "r">>
html_path(name) ==
  [dir |-> html_dir,
   name |-> IF name = "index.html" THEN <<"i", "n", "d", "e", "x", ".", "h", "t", "m", "l">> ELSE <<"v", "e", "r", "t", "_", "c", "r", "o", "s", "s", ".", "h", "t", "m", "l">>]

\* lines 190-223 without the datafile argument of lines 200, 213 and 221: the
\* writer is left to read cfg.datafile
write_html_no_datafile(a, datafile, outcome) ==
  [call |->
     IF a.plot_type = "scalar_wind"
     THEN [writer |-> "write_scalar_with_wind_html", scalar |-> a.parameter, u |-> a.u1,
           v |-> a.u2, level |-> a.level, time |-> a.time, time_index |-> a.time_index,
           directory |-> a.directory, datafile |-> None]
     ELSE IF a.plot_type = "vert_cross"
     THEN [writer |-> "write_vert_cross_html", param |-> a.parameter, u |-> a.u1,
           v |-> a.u2, start |-> <<a.lat0, a.lon0>>, end |-> <<a.lat1, a.lon1>>,
           time |-> IF a.time # None THEN a.time ELSE a.time_index,
           npoints |-> a.npoints, directory |-> a.directory, datafile |-> None]
     ELSE [writer |-> "write_skewT_html", lat |-> a.lat, lon |-> a.lon, time |-> a.time,
           datafile |-> None, directory |-> a.directory],
   result |-> IF outcome = "raised" THEN Raise("WriterError", <<>>)
              ELSE Return(html_path(outcome))]

\* lines 190-223: the call of the writer of the plot type
write_html(a, datafile, outcome) ==
  [call |->
     IF a.plot_type = "scalar_wind"
     THEN [writer |-> "write_scalar_with_wind_html", scalar |-> a.parameter, u |-> a.u1,
           v |-> a.u2, level |-> a.level, time |-> a.time, time_index |-> a.time_index,
           directory |-> a.directory, datafile |-> datafile]
     ELSE IF a.plot_type = "vert_cross"
     THEN [writer |-> "write_vert_cross_html", param |-> a.parameter, u |-> a.u1,
           v |-> a.u2, start |-> <<a.lat0, a.lon0>>, end |-> <<a.lat1, a.lon1>>,
           time |-> IF a.time # None THEN a.time ELSE a.time_index,
           npoints |-> a.npoints, directory |-> a.directory, datafile |-> datafile]
     ELSE [writer |-> "write_skewT_html", lat |-> a.lat, lon |-> a.lon, time |-> a.time,
           datafile |-> datafile, directory |-> a.directory],
   result |-> IF outcome = "raised" THEN Raise("WriterError", <<>>)
              ELSE Return(html_path(outcome))]

\* webbrowser.get().open_new_tab(...) opens the page or raises webbrowser.Error
BrowserOutcomes == {"opened", "raised"}

\* lines 187-231 with line 188 moved before line 136: cfg.set_datafile is
\* called with the datafile argument before the data are resolved
generate_set_datafile_first(a, datafile_before, files, v, s, writer, browser) ==
  LET w == write_html(a, s.datafile, writer)
      quiet == [result |-> v, cfg_datafile |-> datafile_before, files |-> files,
                cache_calls |-> <<>>, downloads |-> <<>>, writer_calls |-> <<>>,
                browser_calls |-> <<>>, printed |-> <<>>]
  IN  IF v.kind = "raise" THEN quiet
      ELSE IF s.error.kind = "raise"
      THEN [quiet EXCEPT !.result = s.error, !.files = s.files,
                         !.cfg_datafile = set_datafile(a.datafile),
                         !.cache_calls = s.cache_calls, !.downloads = s.downloads]
      ELSE IF w.result.kind = "raise"
      THEN [quiet EXCEPT !.result = w.result, !.files = s.files,
                         !.cfg_datafile = set_datafile(s.datafile),
                         !.cache_calls = s.cache_calls, !.downloads = s.downloads,
                         !.writer_calls = <<w.call>>]
      ELSE IF ~a.no_browser /\ browser = "raised"
      THEN [quiet EXCEPT !.result = Raise("webbrowser.Error", <<>>), !.files = s.files,
                         !.cfg_datafile = set_datafile(s.datafile),
                         !.cache_calls = s.cache_calls, !.downloads = s.downloads,
                         !.writer_calls = <<w.call>>,
                         !.browser_calls = <<<<"f", "i", "l", "e", ":", "/", "/">> \o path_str(w.result.value)>>]
      ELSE [quiet EXCEPT !.result = w.result, !.files = s.files,
                         !.cfg_datafile = set_datafile(s.datafile),
                         !.cache_calls = s.cache_calls, !.downloads = s.downloads,
                         !.writer_calls = <<w.call>>,
                         !.browser_calls =
                            IF a.no_browser THEN <<>>
                            ELSE <<<<"f", "i", "l", "e", ":", "/", "/">> \o path_str(w.result.value)>>,
                         !.printed = <<<<"F", "i", "l", "e", " ", "s", "u", "c", "c", "e", "s", "s", "f", "u", "l", "l", "y", " ", "g", "e", "n", "e", "r", "a", "t", "e", "d", " ", "a", "t", ":", " ">>
                                         \o path_str(w.result.value)>>]

\* lines 187-231, for the outcome v of the validation and s of the selection
\* of the data file, and the exits before them.  The result, cfg.datafile
\* and the files afterwards, and the calls made and the line printed
generate(a, datafile_before, files, v, s, writer, browser) ==
  LET w == write_html(a, s.datafile, writer)
      quiet == [result |-> v, cfg_datafile |-> datafile_before, files |-> files,
                cache_calls |-> <<>>, downloads |-> <<>>, writer_calls |-> <<>>,
                browser_calls |-> <<>>, printed |-> <<>>]
  IN  IF v.kind = "raise" THEN quiet
      ELSE IF s.error.kind = "raise"
      THEN [quiet EXCEPT !.result = s.error, !.files = s.files,
                         !.cache_calls = s.cache_calls, !.downloads = s.downloads]
      ELSE IF w.result.kind = "raise"
      THEN [quiet EXCEPT !.result = w.result, !.files = s.files,
                         !.cfg_datafile = set_datafile(s.datafile),
                         !.cache_calls = s.cache_calls, !.downloads = s.downloads,
                         !.writer_calls = <<w.call>>]
      ELSE IF ~a.no_browser /\ browser = "raised"
      THEN [quiet EXCEPT !.result = Raise("webbrowser.Error", <<>>), !.files = s.files,
                         !.cfg_datafile = set_datafile(s.datafile),
                         !.cache_calls = s.cache_calls, !.downloads = s.downloads,
                         !.writer_calls = <<w.call>>,
                         !.browser_calls = <<<<"f", "i", "l", "e", ":", "/", "/">> \o path_str(w.result.value)>>]
      ELSE [quiet EXCEPT !.result = w.result, !.files = s.files,
                         !.cfg_datafile = set_datafile(s.datafile),
                         !.cache_calls = s.cache_calls, !.downloads = s.downloads,
                         !.writer_calls = <<w.call>>,
                         !.browser_calls =
                            IF a.no_browser THEN <<>>
                            ELSE <<<<"f", "i", "l", "e", ":", "/", "/">> \o path_str(w.result.value)>>,
                         !.printed = <<<<"F", "i", "l", "e", " ", "s", "u", "c", "c", "e", "s", "s", "f", "u", "l", "l", "y", " ", "g", "e", "n", "e", "r", "a", "t", "e", "d", " ", "a", "t", ":", " ">>
                                         \o path_str(w.result.value)>>]

\* lines 112-231
run_analysis_plots(a, datafile_before, files, download, writer, browser) ==
  generate(a, datafile_before, files, validate_arguments(a),
           select_datafile(a, files, download), writer, browser)

----
(* run_analysis_plots as a state machine: calls one after the other, in a  *)
(* process whose working directory is the cache of Era5Cache()             *)

MaxRuns == 2

\* a data file of the caller's, as in tests/test_run_analysis_plots.py
test_nc == [dir |-> tmp_path, name |-> <<"t", "e", "s", "t", ".", "n", "c">>]

Given(plot_type) == [RunDefaults EXCEPT !.plot_type = plot_type]

\* the ways to ask for data, and for the browser
Sources ==
  { [download_data |-> dd, datafile |-> df, no_browser |-> nb] :
      dd \in BOOLEAN, df \in {None, test_nc}, nb \in BOOLEAN }

with_source(a, s) ==
  [a EXCEPT !.download_data = s.download_data, !.datafile = s.datafile,
            !.no_browser = s.no_browser]

\* the arguments of the calls: for each plot type the arguments it requires,
\* given or left out
RunArguments ==
  { with_source([Given("scalar_wind") EXCEPT !.parameter = c[1], !.level = c[2], !.time = c[3]], s) :
      c \in { <<PyStr(<<"t">>), PyInt(850), t>> : t \in RunTimes }
             \cup { <<None, PyInt(850), None>>, <<PyStr(<<"t">>), None, None>> },
      s \in Sources }
  \cup
  { with_source([Given("skewT") EXCEPT !.lat = c[1], !.lon = c[2], !.time = c[3]], s) :
      c \in { <<PyInt(47), PyInt(11), t>> : t \in RunTimes }
             \cup { <<None, PyInt(11), t>> : t \in RunTimes \ {None} }
             \cup { <<PyInt(47), None, t>> : t \in RunTimes \ {None} },
      s \in Sources }
  \cup
  { with_source([Given("vert_cross") EXCEPT !.parameter = PyStr(<<"z">>), !.lat0 = c[1],
                   !.lon0 = c[2], !.lat1 = c[3], !.lon1 = c[4], !.time = c[5]], s) :
      c \in { <<PyInt(45), PyInt(-10), PyInt(55), PyInt(10), t>> : t \in RunTimes }
             \cup { <<PyInt(45), PyInt(0), None, None, None>>,
                     <<None, PyInt(-10), PyInt(55), PyInt(10), None>> },
      s \in Sources }
  \cup
  { with_source([Given("contour") EXCEPT !.parameter = PyStr(<<"t">>), !.level = PyInt(850)], s) :
      s \in Sources }

NoRun ==
  [made |-> FALSE, args |-> RunDefaults, result |-> Raise("", <<>>),
   datafile_before |-> None, files_before |-> NoFiles,
   cache_calls |-> <<>>, downloads |-> <<>>, writer_calls |-> <<>>,
   browser_calls |-> <<>>, printed |-> <<>>, writer_returned |-> NoPath]

InitRun ==
  /\ cfg_datafile = None
  /\ run = NoRun
  /\ nruns = 0

RunAnalysisPlots(a, download, writer, browser) ==
  /\ nruns < MaxRuns
  /\ \E r \in {run_analysis_plots(a, cfg_datafile, fs, download, writer, browser)} :
       /\ cfg_datafile' = r.cfg_datafile
       /\ fs' = r.files
       /\ run' = [made |-> TRUE, args |-> a, result |-> r.result,
                  datafile_before |-> cfg_datafile, files_before |-> fs,
                  cache_calls |-> r.cache_calls, downloads |-> r.downloads,
                  writer_calls |-> r.writer_calls, browser_calls |-> r.browser_calls,
                  printed |-> r.printed,
                  writer_returned |-> IF r.writer_calls = <<>> \/ writer = "raised"
                                      THEN NoPath ELSE html_path(writer)]
  /\ nruns' = nruns + 1
  /\ UNCHANGED <<cache_dir, pre, last, ncalls, resolved, dlcount, hashvars, requestvars,
               htmlvars, clivars, racevars>>

----
(* era5vis/core.py: the HTML writers.  The directories written to are a    *)
(* function from the path of a directory to its files, a file being a      *)
(* PNG image or a page of text                                             *)

\* cfg.html_template, data/template.html: the text of the page as a sequence
\* of pieces, the placeholders [PLOTTYPE], [PLOTVAR] and [IMGTYPE] among them
Templates ==
  { <<<<"<", "t", "i", "t", "l", "e", ">">>, <<"[", "P", "L", "O", "T", "T", "Y", "P", "E", "]">>, <<"<", "/", "t", "i", "t", "l", "e", ">", "<", "h", "1", ">">>, <<"[", "P", "L", "O", "T", "V", "A", "R", "]">>, <<"<", "/", "h", "1", ">", "<", "i", "m", "g", " ", "s", "r", "c", "=", "'">>, <<"[", "I", "M", "G", "T", "Y", "P", "E", "]">>, <<"'", ">">>>>,
    <<<<"<", "a", " ", "h", "r", "e", "f", "=", "'">>, <<"[", "I", "M", "G", "T", "Y", "P", "E", "]">>, <<"'", ">", "<", "i", "m", "g", " ", "s", "r", "c", "=", "'">>, <<"[", "I", "M", "G", "T", "Y", "P", "E", "]">>, <<"'", " ", "a", "l", "t", "=", "'">>, <<"[", "P", "L", "O", "T", "T", "Y", "P", "E", "]">>, <<"'", ">", "<", "/", "a", ">">>>> }

\* str.replace(old, new) on the pieces of a page
replace(page, old, new) == [i \in 1..Len(page) |-> IF page[i] = old THEN new ELSE page[i]]

\* str.replace(c, d) for single characters
replace_char(s, c, d) == [i \in 1..Len(s) |-> IF s[i] = c THEN d ELSE s[i]]

\* str(x) of a str, an int or None
py_str(x) == IF x = None THEN <<"N", "o", "n", "e">> ELSE str(x)

\* lines 136, 211, 269
time_safe(time) == replace_char(replace_char(py_str(time), ":", "-"), " ", "_")

\* f"{x:.2f}" of an int
format_2f(x) == int_str(x.v) \o <<".", "0", "0">>

Png == [kind |-> "png", text |-> <<>>]
Html(page) == [kind |-> "html", text |-> page]

NoDirs == [d \in {} |-> NoFiles]

\* tempfile.mkdtemp(): a directory that was not there, made
mkdtemp(ntmp) == <<"/", "t", "m", "p", "/", "t", "m", "p">> \o int_str(ntmp)

\* lines 28-57, reset=False
mkdir(dirs, path) ==
  IF path \in DOMAIN dirs THEN dirs
  ELSE [d \in DOMAIN dirs \cup {path} |-> IF d = path THEN NoFiles ELSE dirs[d]]

\* a file written in a directory that exists
write_in(dirs, path, name, content) ==
  [dirs EXCEPT ![path] = [n \in DOMAIN dirs[path] \cup {name} |-> IF n = name THEN content ELSE dirs[path][n]]]

\* what the collaborators of a writer do: one of them raises (the checks of
\* era5, the extraction of the data, the plotting, the reading of the
\* template) or none does, and the plotting then saves the image at savepath
WriterFailures == {"none", "check", "extract", "plot", "template"}

index_html == <<"i", "n", "d", "e", "x", ".", "h", "t", "m", "l">>

no_datafile == Raise("ValueError", <<"d", "a", "t", "a", "f", "i", "l", "e", " ", "m", "u", "s", "t", " ", "b", "e", " ", "p", "r", "o", "v", "i", "d", "e", "d", " ", "e", "x", "p", "l", "i", "c", "i", "t", "l", "y", ";", " ", "e", "x", "a", "m", "p", "l", "e", " ", "f", "i", "l", "e", "s", " ", "a", "r", "e", " ", "n", "o", " ", "l", "o", "n", "g", "e", "r", " ", "u", "s", "e", "d">>)

\* the directory of the output: lines 122-124, 204-206, 263-265
output_dir(directory, ntmp) == IF directory = None THEN mkdtemp(ntmp) ELSE directory.v

\* the end of a writer, from the plotting on: the image is saved as png in
\* the directory dir, the template is read, the placeholders are replaced and
\* the page is written.  lines 139-159, 222-246, 283-305
plot_and_write(dirs, ntmp, dir, png, plottype, plotvar, imgtype, env) ==
  IF env.fails \in {"extract", "plot"}
  THEN [result |-> Raise("PlotError", <<>>), dirs |-> dirs, ntmp |-> ntmp, png |-> png,
        imgtype |-> imgtype]
  ELSE IF env.fails = "template"
  THEN [result |-> Raise("FileNotFoundError", <<>>), dirs |-> write_in(dirs, dir, png, Png),
        ntmp |-> ntmp, png |-> png, imgtype |-> imgtype]
  ELSE [result |-> Return([dir |-> dir, name |-> index_html]),
        dirs |-> write_in(write_in(dirs, dir, png, Png), dir, index_html,
                          Html(replace(replace(replace(env.template, <<"[", "P", "L", "O", "T", "T", "Y", "P", "E", "]">>, plottype),
                                               <<"[", "P", "L", "O", "T", "V", "A", "R", "]">>, plotvar),
                                       <<"[", "I", "M", "G", "T", "Y", "P", "E", "]">>, imgtype))),
        ntmp |-> ntmp, png |-> png, imgtype |-> imgtype]

\* a writer that raised before it made a directory
raised_early(error, dirs, ntmp) ==
  [result |-> error, dirs |-> dirs, ntmp |-> ntmp, png |-> <<>>, imgtype |-> <<>>]

next_tmp(directory, ntmp) == IF directory = None THEN ntmp + 1 ELSE ntmp

\* lines 135-137
scalar_png(scalar, level, time) ==
  <<"s", "c", "a", "l", "a", "r", "_", "w", "i", "n", "d", "_">> \o py_str(scalar) \o <<"_">> \o py_str(level) \o <<"_">> \o time_safe(time) \o <<".", "p", "n", "g">>

----
(* era5vis/era5.py: the checks and the extraction of the data.  A data     *)
(* file is what xr.open_dataset gives for it: the variables, the pressure  *)
(* levels and the times of valid_time, in their order                      *)

epoch == <<"1", "9", "7", "0", "-", "0", "1", "-", "0", "1", " ", "0", "0", ":", "0", "0", ":", "0", "0">>

\* np.datetime64(pd.to_datetime(time)) of line 130: an int counts the
\* nanoseconds since the epoch (the ints that occur are 0 and above and less than
\* a second), a string is a time "YYYY-MM-DD HH:MM:SS" or not a time
datetime64(time) ==
  IF time.t = "int" THEN [ok |-> TRUE, date |-> epoch, ns |-> time.v]
  ELSE IF /\ time.t = "str" /\ Len(time.v) = 19
          /\ time.v[5] = "-" /\ time.v[8] = "-" /\ time.v[11] = " "
          /\ time.v[14] = ":" /\ time.v[17] = ":"
          /\ \A i \in (1..19) \ {5, 8, 11, 14, 17} : is_digit(time.v[i])
       THEN [ok |-> TRUE, date |-> time.v, ns |-> 0]
       ELSE [ok |-> FALSE, date |-> <<>>, ns |-> 0]

\* the times of a dataset as datetime64 values
valid_times(ds) == {[ok |-> TRUE, date |-> ds.valid_time[i], ns |-> 0] : i \in 1..Len(ds.valid_time)}

\* lines 58-157
check_data_availability(param, level, time, time_ind, ds) ==
  IF param.v \notin ds.variables
  THEN Raise("KeyError", <<"V", "a", "r", "i", "a", "b", "l", "e", " ", "n", "o", "t", " ", "f", "o", "u", "n", "d", " ", "i", "n", " ", "d", "a", "t", "a", " ", "f", "i", "l", "e">>)
  ELSE IF level # None /\ ~(level.t = "int" /\ level.v \in ds.pressure_level)
  THEN Raise("ValueError", <<"P", "r", "e", "s", "s", "u", "r", "e", " ", "l", "e", "v", "e", "l", " ", "n", "o", "t", " ", "a", "v", "a", "i", "l", "a", "b", "l", "e">>)
  ELSE IF time # None /\ ~datetime64(time).ok
  THEN Raise("ValueError", <<"T", "i", "m", "e", " ", "c", "o", "u", "l", "d", " ", "n", "o", "t", " ", "b", "e", " ", "p", "a", "r", "s", "e", "d", " ", "a", "s", " ", "a", " ", "d", "a", "t", "e", "t", "i", "m", "e">>)
  ELSE IF time # None /\ datetime64(time) \notin valid_times(ds)
  THEN Raise("ValueError", <<"T", "i", "m", "e", " ", "n", "o", "t", " ", "a", "v", "a", "i", "l", "a", "b", "l", "e">>)
  ELSE IF time_ind # None /\ ~(0 <= time_ind.v /\ time_ind.v < Len(ds.valid_time))
  THEN Raise("IndexError", <<"t", "i", "m", "e", "_", "i", "n", "d", " ", "o", "u", "t", " ", "o", "f", " ", "b", "o", "u", "n", "d", "s">>)
  ELSE Return(NoPath)

\* lines 160-203: the cross section is selected, or the selection raises
horiz_cross_section(param, lvl, time, ds) ==
  IF param.v \notin ds.variables THEN Raise("KeyError", py_str(param))
  ELSE IF time.t \notin {"str", "int"}
  THEN Raise("TypeError", <<"T", "i", "m", "e", " ", "m", "u", "s", "t", " ", "b", "e", " ", "a", " ", "t", "i", "m", "e", " ", "f", "o", "r", "m", "a", "t", " ", "s", "t", "r", "i", "n", "g", " ", "o", "r", " ", "i", "n", "t", "e", "g", "e", "r">>)
  ELSE IF ~(lvl.t = "int" /\ lvl.v \in ds.pressure_level) THEN Raise("KeyError", py_str(lvl))
  ELSE IF time.t = "int" /\ ~(-Len(ds.valid_time) <= time.v /\ time.v < Len(ds.valid_time))
  THEN Raise("IndexError", <<"i", "n", "d", "e", "x", " ", "o", "u", "t", " ", "o", "f", " ", "b", "o", "u", "n", "d", "s">>)
  ELSE Return(NoPath)

\* the first of the calls that raised, or the last one
first_raised(results) ==
  IF \E i \in 1..Len(results) : results[i].kind = "raise"
  THEN results[CHOOSE i \in 1..Len(results) :
                 /\ results[i].kind = "raise"
                 /\ \A j \in 1..(i - 1) : results[j].kind = "return"]
  ELSE results[Len(results)]

\* core.py 117-119: check_file_availability, which the environment fails or
\* not, and the check of each of the three variables
checked(scalar, u, v, level, time, env) ==
  IF env.fails = "check" THEN Raise("RuntimeError", <<"E", "r", "r", "o", "r", " ", "l", "o", "a", "d", "i", "n", "g", " ", "d", "a", "t", "a", " ", "f", "i", "l", "e">>)
  ELSE first_raised(<<check_data_availability(scalar, level, time, None, env.dataset),
                      check_data_availability(u, level, time, None, env.dataset),
                      check_data_availability(v, level, time, None, env.dataset)>>)

\* core.py 129-131
extracted(scalar, u, v, level, time, env) ==
  first_raised(<<horiz_cross_section(scalar, level, time, env.dataset),
                 horiz_cross_section(u, level, time, env.dataset),
                 horiz_cross_section(v, level, time, env.dataset)>>)

\* a writer that raised after it made its directory
raised_late(error, directory, dirs, ntmp) ==
  [result |-> error, dirs |-> mkdir(dirs, output_dir(directory, ntmp)),
   ntmp |-> next_tmp(directory, ntmp), png |-> <<>>, imgtype |-> <<>>]

----
\* lines 60-159 with str(png), the whole path, for png.name in line 153
scalar_with_wind_html_path(scalar, u, v, level, time, directory, datafile, dirs, ntmp, env) ==
  IF datafile = None THEN raised_early(no_datafile, dirs, ntmp)
  ELSE IF checked(scalar, u, v, level, time, env).kind = "raise"
  THEN raised_early(checked(scalar, u, v, level, time, env), dirs, ntmp)
  ELSE IF extracted(scalar, u, v, level, time, env).kind = "raise"
  THEN raised_late(extracted(scalar, u, v, level, time, env), directory, dirs, ntmp)
  ELSE plot_and_write(mkdir(dirs, output_dir(directory, ntmp)), next_tmp(directory, ntmp),
                      output_dir(directory, ntmp), scalar_png(scalar, level, time),
                      <<"S", "c", "a", "l", "a", "r", " ", "f", "i", "e", "l", "d", " ", "w", "i", "t", "h", " ", "w", "i", "n", "d">>, py_str(scalar),
                      output_dir(directory, ntmp) \o <<"/">> \o scalar_png(scalar, level, time), env)

\* lines 60-159, for the time after the fallback of lines 106-107
scalar_with_wind_html(scalar, u, v, level, time, directory, datafile, dirs, ntmp, env) ==
  IF datafile = None THEN raised_early(no_datafile, dirs, ntmp)
  ELSE IF checked(scalar, u, v, level, time, env).kind = "raise"
  THEN raised_early(checked(scalar, u, v, level, time, env), dirs, ntmp)
  ELSE IF extracted(scalar, u, v, level, time, env).kind = "raise"
  THEN raised_late(extracted(scalar, u, v, level, time, env), directory, dirs, ntmp)
  ELSE plot_and_write(mkdir(dirs, output_dir(directory, ntmp)), next_tmp(directory, ntmp),
                      output_dir(directory, ntmp), scalar_png(scalar, level, time),
                      <<"S", "c", "a", "l", "a", "r", " ", "f", "i", "e", "l", "d", " ", "w", "i", "t", "h", " ", "w", "i", "n", "d">>, py_str(scalar),
                      scalar_png(scalar, level, time), env)

\* lines 60-159
write_scalar_with_wind_html(scalar, u, v, level, time, time_index, directory, datafile, dirs, ntmp, env) ==
  scalar_with_wind_html(scalar, u, v, level, IF time = None THEN time_index ELSE time,
                        directory, datafile, dirs, ntmp, env)

\* lines 210-212
skewT_png(lat, lon, time) ==
  <<"S", "k", "e", "w", "T", "_">> \o format_2f(lat) \o <<"_">> \o format_2f(lon) \o <<"_">> \o time_safe(time) \o <<".", "p", "n", "g">>

\* lines 161-246: the format .2f of line 212 is one of numbers
write_skewT_html(lat, lon, time, datafile, directory, dirs, ntmp, env) ==
  IF datafile = None THEN raised_early(no_datafile, dirs, ntmp)
  ELSE IF lat.t # "int" \/ lon.t # "int"
  THEN [result |-> Raise(IF "str" \in {lat.t, lon.t} THEN "ValueError" ELSE "TypeError", <<"f", "o", "r", "m", "a", "t", " ", ".", "2", "f">>),
        dirs |-> mkdir(dirs, output_dir(directory, ntmp)), ntmp |-> next_tmp(directory, ntmp),
        png |-> <<>>, imgtype |-> <<>>]
  ELSE plot_and_write(mkdir(dirs, output_dir(directory, ntmp)), next_tmp(directory, ntmp),
                      output_dir(directory, ntmp), skewT_png(lat, lon, time),
                      <<"S", "k", "e", "w", "-", "T", " ", "d", "i", "a", "g", "r", "a", "m">>,
                      format_2f(lat) \o <<"°", ",", " ">> \o format_2f(lon) \o <<"°", " ", "@", " ">> \o py_str(time),
                      skewT_png(lat, lon, time), env)

\* lines 269-270
vert_cross_png(param, time) == <<"v", "e", "r", "t", "_", "c", "r", "o", "s", "s", "_">> \o py_str(param) \o <<"_">> \o time_safe(time) \o <<".", "p", "n", "g">>

\* lines 248-305 with the check of lines 255-258 made after the directory of
\* lines 263-265
write_vert_cross_html_late_check(param, start, end, time, u, v, npoints, datafile, directory, dirs, ntmp, env) ==
  IF datafile = None THEN raised_late(no_datafile, directory, dirs, ntmp)
  ELSE IF env.fails = "check"
  THEN raised_early(Raise("RuntimeError", <<"E", "r", "r", "o", "r", " ", "l", "o", "a", "d", "i", "n", "g", " ", "d", "a", "t", "a", " ", "f", "i", "l", "e">>), dirs, ntmp)
  ELSE IF check_data_availability(param, None, time, None, env.dataset).kind = "raise"
  THEN raised_early(check_data_availability(param, None, time, None, env.dataset), dirs, ntmp)
  ELSE plot_and_write(mkdir(dirs, output_dir(directory, ntmp)), next_tmp(directory, ntmp),
                      output_dir(directory, ntmp), vert_cross_png(param, time),
                      <<"V", "e", "r", "t", "i", "c", "a", "l", " ", "c", "r", "o", "s", "s", " ", "s", "e", "c", "t", "i", "o", "n">>, py_str(param),
                      vert_cross_png(param, time), env)

\* lines 248-305
write_vert_cross_html(param, start, end, time, u, v, npoints, datafile, directory, dirs, ntmp, env) ==
  IF datafile = None THEN raised_early(no_datafile, dirs, ntmp)
  ELSE IF env.fails = "check"
  THEN raised_early(Raise("RuntimeError", <<"E", "r", "r", "o", "r", " ", "l", "o", "a", "d", "i", "n", "g", " ", "d", "a", "t", "a", " ", "f", "i", "l", "e">>), dirs, ntmp)
  ELSE IF check_data_availability(param, None, time, None, env.dataset).kind = "raise"
  THEN raised_early(check_data_availability(param, None, time, None, env.dataset), dirs, ntmp)
  ELSE plot_and_write(mkdir(dirs, output_dir(directory, ntmp)), next_tmp(directory, ntmp),
                      output_dir(directory, ntmp), vert_cross_png(param, time),
                      <<"V", "e", "r", "t", "i", "c", "a", "l", " ", "c", "r", "o", "s", "s", " ", "s", "e", "c", "t", "i", "o", "n">>, py_str(param),
                      vert_cross_png(param, time), env)

----
(* The HTML writers as a state machine: calls one after the other *)

MaxHtml == 2

out_dir == <<"/", "t", "m", "p", "/", "p", "y", "t", "e", "s", "t", "-", "0", "/", "o", "u", "t">>

WriterNames == {"write_scalar_with_wind_html", "write_skewT_html", "write_vert_cross_html"}

\* the arguments of a call of a writer, as in tests/test_core.py: a time with
\* ':' and ' ' in it or none, a directory or none, a data file or none, for
\* the Skew-T numbers, or strings as the command line gives them, for lat
\* and lon, and for the scalar map without a time an index in the bounds of
\* valid_time, one beyond them, or none (the default of the writer)
HtmlArguments ==
  { [writer |-> c[1], param |-> PyStr(<<"t">>), u |-> PyStr(<<"u">>), v |-> PyStr(<<"v">>),
     level |-> PyInt(850), time |-> c[4], time_index |-> c[5],
     lat |-> c[2], lon |-> c[3], start |-> <<PyInt(40), PyInt(0)>>,
     end |-> <<PyInt(60), PyInt(20)>>, npoints |-> PyInt(50), directory |-> d,
     datafile |-> f] :
      c \in { <<w, PyInt(47), PyInt(-11), t, PyInt(0)>> :
                w \in WriterNames, t \in {None, PyStr(<<"2", "0", "2", "5", "-", "0", "3", "-", "0", "2", " ", "0", "0", ":", "0", "0", ":", "0", "0">>)} }
             \cup { <<"write_skewT_html", PyStr(<<"4", "7">>), PyStr(<<"1", "1">>),
                      PyStr(<<"2", "0", "2", "5", "-", "0", "3", "-", "0", "2", " ", "0", "0", ":", "0", "0", ":", "0", "0">>), PyInt(0)>> }
             \cup { <<"write_scalar_with_wind_html", PyInt(47), PyInt(-11), None, i>> :
                      i \in {PyInt(1), PyInt(3), None} },
      d \in {None, PyStr(out_dir)}, f \in {None, test_nc} }

\* what a data file holds: the example data, three hours of 2 March 2025, or
\* the first hours of 1970
example_dataset ==
  [variables |-> {<<"t">>, <<"u">>, <<"v">>, <<"z">>}, pressure_level |-> {850, 500},
   valid_time |-> <<<<"2", "0", "2", "5", "-", "0", "3", "-", "0", "2", " ", "0", "0", ":", "0", "0", ":", "0", "0">>, <<"2", "0", "2", "5", "-", "0", "3", "-", "0", "2", " ", "0", "1", ":", "0", "0", ":", "0", "0">>, <<"2", "0", "2", "5", "-", "0", "3", "-", "0", "2", " ", "0", "2", ":", "0", "0", ":", "0", "0">>>>]

Datasets ==
  { example_dataset,
    [example_dataset EXCEPT !.valid_time = <<epoch, <<"1", "9", "7", "0", "-", "0", "1", "-", "0", "1", " ", "0", "1", ":", "0", "0", ":", "0", "0">>>>] }

\* a collaborator that fails is tried with one template and the example data
Environments ==
  { e \in [fails : WriterFailures, template : Templates, dataset : Datasets] :
      \/ e.fails = "none"
      \/ e.template = (CHOOSE t \in Templates : TRUE) /\ e.dataset = example_dataset }

\* the call of the writer a.writer with the arguments a
call_writer(a, dirs, ntmp, env) ==
  CASE a.writer = "write_scalar_with_wind_html" ->
         write_scalar_with_wind_html(a.param, a.u, a.v, a.level, a.time, a.time_index,
                                     a.directory, a.datafile, dirs, ntmp, env)
    [] a.writer = "write_skewT_html" ->
         write_skewT_html(a.lat, a.lon, a.time, a.datafile, a.directory, dirs, ntmp, env)
    [] OTHER ->
         write_vert_cross_html(a.param, a.start, a.end, a.time, a.u, a.v, a.npoints,
                               a.datafile, a.directory, dirs, ntmp, env)

NoHtml ==
  [made |-> FALSE, args |-> CHOOSE a \in HtmlArguments : TRUE,
   env |-> CHOOSE e \in Environments : TRUE, result |-> Raise("", <<>>),
   png |-> <<>>, imgtype |-> <<>>, dirs_before |-> NoDirs]

InitHtml ==
  /\ outdirs = NoDirs
  /\ tmpcount = 0
  /\ html = NoHtml
  /\ nhtml = 0

WriteHtml(a, env) ==
  /\ nhtml < MaxHtml
  /\ \E r \in {call_writer(a, outdirs, tmpcount, env)} :
       /\ outdirs' = r.dirs
       /\ tmpcount' = r.ntmp
       /\ html' = [made |-> TRUE, args |-> a, env |-> env, result |-> r.result,
                   png |-> r.png, imgtype |-> r.imgtype, dirs_before |-> outdirs]
  /\ nhtml' = nhtml + 1
  /\ UNCHANGED <<cachevars, hashvars, requestvars, runvars, clivars, racevars>>

----
(* era5vis/cli.py: the command line of era5vis_analysis_plots *)

PyBool(b) == [t |-> "bool", v |-> b]

\* the truth value of a Python value
truthy(x) ==
  CASE x.t = "NoneType" -> FALSE
    [] x.t = "bool" -> x.v
    [] x.t = "int" -> x.v # 0
    [] OTHER -> x.v # <<>>

\* a or b
py_or(a, b) == IF truthy(a) THEN a ELSE b

\* d.get(key, default)
get(d, key, default) ==
  IF \E i \in 1..Len(d.v) : d.v[i][1] = key
  THEN d.v[CHOOSE i \in 1..Len(d.v) : d.v[i][1] = key][2]
  ELSE default

startswith(s, prefix) == Len(prefix) <= Len(s) /\ SubSeq(s, 1, Len(prefix)) = prefix
endswith(s, suffix) == Len(suffix) <= Len(s) /\ SubSeq(s, Len(s) - Len(suffix) + 1, Len(s)) = suffix

\* lines 66-157: the options of the parser, with the -h/--help that
\* ArgumentParser adds
Option(strings, dest, action, type) == [strings |-> strings, dest |-> dest, action |-> action, type |-> type]

Options ==
  { Option({<<"-", "h">>, <<"-", "-", "h", "e", "l", "p">>}, "help", "help", "str"),
    Option({<<"-", "v">>, <<"-", "-", "v", "e", "r", "s", "i", "o", "n">>}, "version", "version", "str"),
    Option({<<"-", "p">>, <<"-", "-", "p", "a", "r", "a", "m", "e", "t", "e", "r">>}, "parameter", "store", "str"),
    Option({<<"-", "l", "v", "l">>, <<"-", "-", "l", "e", "v", "e", "l">>}, "level", "store", "int"),
    Option({<<"-", "t">>, <<"-", "-", "t", "i", "m", "e">>}, "time", "store", "str"),
    Option({<<"-", "t", "i">>, <<"-", "-", "t", "i", "m", "e", "_", "i", "n", "d", "e", "x">>}, "time_index", "store", "int"),
    Option({<<"-", "p", "l">>, <<"-", "-", "p", "l", "o", "t", "_", "t", "y", "p", "e">>}, "plot_type", "store", "choice"),
    Option({<<"-", "-", "n", "o", "-", "b", "r", "o", "w", "s", "e", "r">>}, "no_browser", "store_true", "bool"),
    Option({<<"-", "-", "d", "i", "r", "e", "c", "t", "o", "r", "y">>}, "directory", "store", "str"),
    Option({<<"-", "u", "1">>, <<"-", "-", "h", "o", "r", "i", "z", "o", "n", "t", "a", "l", "_", "w", "i", "n", "d">>}, "u", "store", "str"),
    Option({<<"-", "u", "2">>, <<"-", "-", "m", "e", "r", "i", "d", "i", "o", "n", "a", "l", "_", "w", "i", "n", "d">>}, "v", "store", "str"),
    Option({<<"-", "l", "a", "t">>, <<"-", "-", "l", "a", "t", "i", "t", "u", "d", "e">>}, "latitude", "store", "str"),
    Option({<<"-", "l", "o", "n">>, <<"-", "-", "l", "o", "n", "g", "i", "t", "u", "d", "e">>}, "longitude", "store", "str"),
    Option({<<"-", "-", "d", "o", "w", "n", "l", "o", "a", "d", "-", "d", "a", "t", "a">>}, "download_data", "store_true", "bool") }

\* lines 107-110
PlotTypeChoices == {<<"s", "c", "a", "l", "a", "r", "_", "w", "i", "n", "d">>, <<"s", "k", "e", "w", "T">>}

\* the attributes of the parsed arguments when no option is given
Namespace ==
  [config |-> None, parameter |-> None, level |-> None, time |-> None,
   time_index |-> PyInt(0), plot_type |-> PyStr(<<"s", "c", "a", "l", "a", "r", "_", "w", "i", "n", "d">>),
   no_browser |-> PyBool(FALSE), directory |-> None, u |-> None, v |-> None,
   latitude |-> None, longitude |-> None, download_data |-> PyBool(FALSE)]

\* getattr(args, name, default)
getattr(ns, name, default) == IF name \in DOMAIN ns THEN ns[name] ELSE default

\* int(s) of an argument: an optional sign and digits
is_int_literal(s) ==
  /\ s # <<>>
  /\ IF s[1] \in {"-", "+"}
     THEN Len(s) > 1 /\ \A i \in 2..Len(s) : is_digit(s[i])
     ELSE \A i \in 1..Len(s) : is_digit(s[i])

int_of(s) ==
  IF s[1] = "-" THEN 0 - parse_int(Tail(s))
  ELSE IF s[1] = "+" THEN parse_int(Tail(s)) ELSE parse_int(s)

\* the options an argument names: the one it is an option string of, or those
\* it abbreviates
option_matches(token) ==
  IF \E o \in Options : token \in o.strings
  THEN {o \in Options : token \in o.strings}
  ELSE {o \in Options : \E s \in o.strings : startswith(s, token)}

\* what argparse takes an argument string for: an argument "A", an option "O",
\* an option that matches several, or an option it does not know
classify(token) ==
  IF token = <<>> \/ token[1] # "-" \/ Len(token) = 1 THEN "A"
  ELSE IF Cardinality(option_matches(token)) = 1 THEN "O"
  ELSE IF Cardinality(option_matches(token)) > 1 THEN "ambiguous"
  ELSE IF is_int_literal(token) THEN "A"
  ELSE "unknown"

valid_value(type, s) ==
  CASE type = "int" -> is_int_literal(s)
    [] type = "choice" -> s \in PlotTypeChoices
    [] OTHER -> TRUE

convert(type, s) == IF type = "int" THEN PyInt(int_of(s)) ELSE PyStr(s)

\* the parsing of the arguments from left to right.  exit is the code of the
\* SystemExit raised, or "" while there is none; given are the attributes set
\* by an option of the command line; unrecognized tells that an argument was
\* left over
RECURSIVE consume(_, _)
RECURSIVE take(_, _, _)
take(o, args, st) ==
  IF o.action \in {"help", "version"} THEN [st EXCEPT !.exit = "0"]
  ELSE IF o.action = "store_true"
  THEN consume(Tail(args), [st EXCEPT !.ns[o.dest] = PyBool(TRUE), !.given = @ \cup {o.dest}])
  ELSE IF Len(args) < 2 \/ classify(args[2]) # "A" THEN [st EXCEPT !.exit = "2"]
  ELSE IF ~valid_value(o.type, args[2]) THEN [st EXCEPT !.exit = "2"]
  ELSE consume(SubSeq(args, 3, Len(args)),
               [st EXCEPT !.ns[o.dest] = convert(o.type, args[2]), !.given = @ \cup {o.dest}])

consume(args, st) ==
  IF args = <<>> THEN st
  ELSE IF classify(args[1]) = "A"
  THEN consume(Tail(args),
               IF st.ns.config = None THEN [st EXCEPT !.ns.config = PyStr(args[1])]
               ELSE [st EXCEPT !.unrecognized = TRUE])
  ELSE IF classify(args[1]) = "unknown"
  THEN consume(Tail(args), [st EXCEPT !.unrecognized = TRUE])
  ELSE take(CHOOSE o \in option_matches(args[1]) : TRUE, args, st)

Unparsed == [exit |-> "", ns |-> Namespace, given |-> {}, unrecognized |-> FALSE]

\* lines 159-163, for what the parsing came to
parsed_or_exit(st) ==
  IF st.exit = "" /\ st.unrecognized THEN [st EXCEPT !.exit = "2"] ELSE st

\* lines 47-163
parse_args(args) ==
  IF args = <<>> THEN [Unparsed EXCEPT !.exit = "0"]
  ELSE IF \E i \in 1..Len(args) : classify(args[i]) = "ambiguous"
  THEN [Unparsed EXCEPT !.exit = "2"]
  ELSE parsed_or_exit(consume(args, Unparsed))

\* utils/cli_or_config.py
cli_or_config(cli_val, config_val, default) ==
  IF cli_val # None THEN cli_val
  ELSE IF config_val # None THEN config_val
  ELSE default

\* lines 166-184: the configuration read from the file at config_path, a file
\* being there or not, its content what yaml.safe_load gives
load_config(config_path, file) ==
  IF ~(endswith(config_path, <<".", "y", "a", "m", "l">>) \/ endswith(config_path, <<".", "y", "m", "l">>))
  THEN [error |-> Raise("ValueError", <<"C", "o", "n", "f", "i", "g", " ", "m", "u", "s", "t", " ", "b", "e", " ", "a", " ", ".", "y", "a", "m", "l", " ", "o", "r", " ", ".", "y", "m", "l", " ", "f", "i", "l", "e">>), config |-> None]
  ELSE IF ~file.exists
  THEN [error |-> Raise("FileNotFoundError", config_path), config |-> None]
  ELSE [error |-> Return(NoPath), config |-> file.content]

EmptyDict == PyDict(<<>>)

\* lines 207-211: the section of the plot type and the common section
plot_config_of(config, plot_type) ==
  IF truthy(config) THEN get(config, plot_type.v, EmptyDict) ELSE EmptyDict
common_config_of(config) ==
  IF truthy(config) THEN get(config, <<"c", "o", "m", "m", "o", "n">>, EmptyDict) ELSE EmptyDict

\* lines 214-227, for the plot type of line 205 and the sections of lines 208, 211
merged_params(args, plot_type, plot_config, common_config) ==
  PyDict(<< <<<<"p", "l", "o", "t", "_", "t", "y", "p", "e">>, plot_type>>,
            <<<<"p", "a", "r", "a", "m", "e", "t", "e", "r">>, py_or(py_or(args.parameter, get(plot_config, <<"p", "a", "r", "a", "m", "e", "t", "e", "r">>, None)), PyStr(<<"z">>))>>,
            <<<<"l", "e", "v", "e", "l">>, py_or(py_or(args.level, get(plot_config, <<"l", "e", "v", "e", "l">>, None)), PyInt(500))>>,
            <<<<"u", "1">>, py_or(py_or(getattr(args, "u", None), get(plot_config, <<"u">>, None)), PyStr(<<"u">>))>>,
            <<<<"u", "2">>, py_or(py_or(getattr(args, "v", None), get(plot_config, <<"v">>, None)), PyStr(<<"v">>))>>,
            <<<<"l", "a", "t">>, py_or(getattr(args, "lat", None), get(plot_config, <<"l", "a", "t">>, None))>>,
            <<<<"l", "o", "n">>, py_or(getattr(args, "lon", None), get(plot_config, <<"l", "o", "n">>, None))>>,
            <<<<"t", "i", "m", "e">>, py_or(py_or(args.time, get(plot_config, <<"t", "i", "m", "e">>, None)), get(common_config, <<"t", "i", "m", "e">>, None))>>,
            <<<<"t", "i", "m", "e", "_", "i", "n", "d", "e", "x">>, py_or(args.time_index, get(plot_config, <<"t", "i", "m", "e", "_", "i", "n", "d", "e", "x">>, PyInt(0)))>>,
            <<<<"d", "i", "r", "e", "c", "t", "o", "r", "y">>, py_or(args.directory, get(common_config, <<"d", "i", "r", "e", "c", "t", "o", "r", "y">>, PyStr(<<".">>)))>>,
            <<<<"n", "o", "_", "b", "r", "o", "w", "s", "e", "r">>, py_or(args.no_browser, get(common_config, <<"n", "o", "_", "b", "r", "o", "w", "s", "e", "r">>, PyBool(FALSE)))>>,
            <<<<"d", "o", "w", "n", "l", "o", "a", "d", "_", "d", "a", "t", "a">>, py_or(args.download_data, get(plot_config, <<"d", "o", "w", "n", "l", "o", "a", "d", "_", "d", "a", "t", "a">>, PyBool(FALSE)))>> >>)

\* line 205
merged_plot_type(args, config) ==
  IF truthy(args.plot_type) THEN args.plot_type
  ELSE get(config, <<"p", "l", "o", "t", "_", "t", "y", "p", "e">>, PyStr(<<"s", "c", "a", "l", "a", "r", "_", "w", "i", "n", "d">>))

\* lines 186-229
merge_config_and_args(args, config) ==
  merged_params(args, merged_plot_type(args, config),
                plot_config_of(config, merged_plot_type(args, config)),
                common_config_of(config))

\* s[a:b]
slice(s, a, b) == SubSeq(s, a + 1, IF b < Len(s) THEN b ELSE Len(s))

\* lines 252-259
Hours == [h \in 1..24 |-> PyStr(format_0d(h - 1, 2) \o <<":", "0", "0">>)]

\* lines 245-265
cli_request(parameter, level, time) ==
  Era5Request(PyList(<<PyStr(<<"r", "e", "a", "n", "a", "l", "y", "s", "i", "s">>)>>),
              PyList(<<parameter>>),
              PyList(<<PyStr(IF truthy(time) THEN slice(time.v, 0, 4) ELSE <<"2", "0", "2", "5">>)>>),
              PyList(<<PyStr(IF truthy(time) THEN slice(time.v, 4, 6) ELSE <<"0", "3">>)>>),
              IF truthy(time) THEN PyList(<<PyStr(slice(time.v, 6, 8))>>)
              ELSE PyList(<<PyStr(<<"0", "2">>), PyStr(<<"0", "3">>), PyStr(<<"0", "4">>)>>),
              IF truthy(time) THEN PyList(<<PyStr(slice(time.v, 8, 10) \o <<":", "0", "0">>)>>)
              ELSE PyList(Hours),
              PyList(<<PyStr(py_str(level))>>),
              PyStr(<<"n", "e", "t", "c", "d", "f">>), PyStr(<<"u", "n", "a", "r", "c", "h", "i", "v", "e", "d">>),
              PyList(<<PyInt(70), PyInt(-20), PyInt(-30), PyInt(50)>>))

\* lines 277-283, for what the download collaborator did, d
cli_downloaded(req_dict, target, d) ==
  [result |-> IF d.raised THEN Raise("CdsError", <<>>)
              ELSE IF ~exists(d.files, target)
              THEN Raise("RuntimeError", <<"E", "R", "A", "5", " ", "d", "o", "w", "n", "l", "o", "a", "d", " ", "r", "e", "p", "o", "r", "t", "e", "d", " ", "s", "u", "c", "c", "e", "s", "s", " ", "b", "u", "t", " ", "f", "i", "l", "e", " ", "w", "a", "s", " ", "n", "o", "t", " ", "f", "o", "u", "n", "d", ":", " ">> \o path_str(target))
              ELSE Return(target),
   files |-> d.files, downloads |-> <<[request |-> req_dict, target |-> target]>>]

\* lines 268-283
cli_cached(req_dict, target, files, outcome) ==
  IF exists(files, target)
  THEN [result |-> Return(target), files |-> files, downloads |-> <<>>]
  ELSE cli_downloaded(req_dict, target, download_era5_data(req_dict, target, files, outcome))

\* lines 231-283: _download_era5_data
cli_download_era5_data(parameter, level, time, time_index, files, outcome) ==
  cli_cached(to_dict(cli_request(parameter, level, time)),
             [dir |-> cwd,
              name |-> <<"e", "r", "a", "5", "_">> \o request_hash(to_dict(cli_request(parameter, level, time))) \o <<".", "n", "c">>],
             files, outcome)

\* cfg.py 36
example_datafile == [dir |-> pkgdata, name |-> <<"e", "r", "a", "5", "_", "e", "x", "a", "m", "p", "l", "e", "_", "d", "a", "t", "a", "s", "e", "t", ".", "n", "c">>]

\* lines 316-325
cli_datafile(params, level, time, time_index, download_data, files, outcome) ==
  IF truthy(download_data)
  THEN cli_download_era5_data(get(params, <<"p", "a", "r", "a", "m", "e", "t", "e", "r">>, None), level, time, time_index, files, outcome)
  ELSE [result |-> Return(example_datafile), files |-> files, downloads |-> <<>>]

\* lines 334, 350: the required keys that params has not, or has as None
missing(params, required) == {k \in required : get(params, k, None) = None}

\* lines 329-362: the call of the writer of the plot type, which is given no
\* datafile
cli_write_html(params, dirs, ntmp, env) ==
  IF get(params, <<"p", "l", "o", "t", "_", "t", "y", "p", "e">>, PyStr(<<"s", "c", "a", "l", "a", "r", "_", "w", "i", "n", "d">>)) = PyStr(<<"s", "c", "a", "l", "a", "r", "_", "w", "i", "n", "d">>)
  THEN IF missing(params, {<<"p", "a", "r", "a", "m", "e", "t", "e", "r">>, <<"l", "e", "v", "e", "l">>, <<"u", "1">>, <<"u", "2">>}) # {}
       THEN [written |-> raised_early(Raise("ValueError", <<"F", "o", "r", " ", "s", "c", "a", "l", "a", "r", "_", "w", "i", "n", "d", " ", "p", "l", "o", "t", "s", ",", " ", "m", "i", "s", "s", "i", "n", "g", ":", " ">>), dirs, ntmp),
             calls |-> <<>>]
       ELSE [written |-> write_scalar_with_wind_html(get(params, <<"p", "a", "r", "a", "m", "e", "t", "e", "r">>, None), get(params, <<"u", "1">>, None),
                                                      get(params, <<"u", "2">>, None), get(params, <<"l", "e", "v", "e", "l">>, None),
                                                      get(params, <<"t", "i", "m", "e">>, None), get(params, <<"t", "i", "m", "e", "_", "i", "n", "d", "e", "x">>, PyInt(0)),
                                                      get(params, <<"d", "i", "r", "e", "c", "t", "o", "r", "y">>, None), None, dirs, ntmp, env),
             calls |-> <<"write_scalar_with_wind_html">>]
  ELSE IF get(params, <<"p", "l", "o", "t", "_", "t", "y", "p", "e">>, PyStr(<<"s", "c", "a", "l", "a", "r", "_", "w", "i", "n", "d">>)) = PyStr(<<"s", "k", "e", "w", "T">>)
  THEN IF missing(params, {<<"l", "a", "t">>, <<"l", "o", "n">>, <<"t", "i", "m", "e">>}) # {}
       THEN [written |-> raised_early(Raise("ValueError", <<"F", "o", "r", " ", "s", "k", "e", "w", "T", " ", "p", "l", "o", "t", "s", ",", " ", "m", "i", "s", "s", "i", "n", "g", ":", " ">>), dirs, ntmp),
             calls |-> <<>>]
       ELSE [written |-> write_skewT_html(get(params, <<"l", "a", "t">>, None), get(params, <<"l", "o", "n">>, None),
                                           get(params, <<"t", "i", "m", "e">>, None), None,
                                           get(params, <<"d", "i", "r", "e", "c", "t", "o", "r", "y">>, None), dirs, ntmp, env),
             calls |-> <<"write_skewT_html">>]
  ELSE [written |-> raised_early(Raise("ValueError", <<"U", "n", "k", "n", "o", "w", "n", " ", "p", "l", "o", "t", "_", "t", "y", "p", "e">>), dirs, ntmp), calls |-> <<>>]

\* lines 364-367, for the page the writer w.written returned
cli_show(params, d, w, browser) ==
  [result |-> IF ~truthy(get(params, <<"n", "o", "_", "b", "r", "o", "w", "s", "e", "r">>, PyBool(FALSE))) /\ browser = "raised"
              THEN Raise("webbrowser.Error", <<>>) ELSE Return(NoPath),
   cfg_datafile |-> set_datafile(d.result.value), files |-> d.files,
   dirs |-> w.written.dirs, ntmp |-> w.written.ntmp, downloads |-> d.downloads,
   writer_calls |-> w.calls,
   browser_calls |-> IF truthy(get(params, <<"n", "o", "_", "b", "r", "o", "w", "s", "e", "r">>, PyBool(FALSE))) THEN <<>>
                     ELSE <<<<"f", "i", "l", "e", ":", "/", "/">> \o path_str(w.written.result.value)>>,
   printed |-> IF truthy(get(params, <<"n", "o", "_", "b", "r", "o", "w", "s", "e", "r">>, PyBool(FALSE)))
               THEN <<<<"F", "i", "l", "e", " ", "s", "u", "c", "c", "e", "s", "s", "f", "u", "l", "l", "y", " ", "g", "e", "n", "e", "r", "a", "t", "e", "d", " ", "a", "t", ":", " ">> \o path_str(w.written.result.value)>>
               ELSE <<>>]

\* lines 326-367, for the data file the lines 316-325 gave, d, and what the
\* call of the writer gave, w
cli_plot(params, d, w, datafile_before, files, dirs, ntmp, browser) ==
  IF d.result.kind = "raise"
  THEN [result |-> d.result, cfg_datafile |-> datafile_before, files |-> d.files, dirs |-> dirs,
        ntmp |-> ntmp, downloads |-> d.downloads, writer_calls |-> <<>>, browser_calls |-> <<>>,
        printed |-> <<>>]
  ELSE IF w.written.result.kind = "raise"
  THEN [result |-> w.written.result, cfg_datafile |-> set_datafile(d.result.value),
        files |-> d.files, dirs |-> w.written.dirs, ntmp |-> w.written.ntmp,
        downloads |-> d.downloads, writer_calls |-> w.calls, browser_calls |-> <<>>,
        printed |-> <<>>]
  ELSE cli_show(params, d, w, browser)

\* lines 286-367: _generate_plot
generate_plot(params, level, time, time_index, no_browser, download_data, datafile_before, files, dirs, ntmp, coll) ==
  cli_plot(params,
           cli_datafile(params, level, time, time_index, download_data, files, coll.download),
           cli_write_html(params, dirs, ntmp, coll.env),
           datafile_before, files, dirs, ntmp, coll.browser)

\* line 286: the parameters of _generate_plot, and those without a default
GeneratePlotParameters == {<<"p", "a", "r", "a", "m", "s">>, <<"l", "e", "v", "e", "l">>, <<"t", "i", "m", "e">>, <<"t", "i", "m", "e", "_", "i", "n", "d", "e", "x">>, <<"n", "o", "_", "b", "r", "o", "w", "s", "e", "r">>, <<"d", "o", "w", "n", "l", "o", "a", "d", "_", "d", "a", "t", "a">>}
GeneratePlotRequired == {<<"p", "a", "r", "a", "m", "s">>, <<"l", "e", "v", "e", "l">>}

\* a call that raised before it did anything
not_called(error, datafile_before, files, dirs, ntmp) ==
  [result |-> error, cfg_datafile |-> datafile_before, files |-> files, dirs |-> dirs,
   ntmp |-> ntmp, downloads |-> <<>>, writer_calls |-> <<>>, browser_calls |-> <<>>,
   printed |-> <<>>]

\* line 39: _generate_plot(**kwargs), the keys of kwargs bound to the
\* parameters of line 286
call_generate_plot(kwargs, datafile_before, files, dirs, ntmp, coll) ==
  IF \E i \in 1..Len(kwargs.v) : kwargs.v[i][1] \notin GeneratePlotParameters
  THEN not_called(Raise("TypeError",
                        <<"_", "g", "e", "n", "e", "r", "a", "t", "e", "_", "p", "l", "o", "t", "(", ")", " ", "g", "o", "t", " ", "a", "n", " ", "u", "n", "e", "x", "p", "e", "c", "t", "e", "d", " ", "k", "e", "y", "w", "o", "r", "d", " ", "a", "r", "g", "u", "m", "e", "n", "t", " ", "'">>
                        \o kwargs.v[CHOOSE i \in 1..Len(kwargs.v) :
                                       /\ kwargs.v[i][1] \notin GeneratePlotParameters
                                       /\ \A j \in 1..(i - 1) : kwargs.v[j][1] \in GeneratePlotParameters][1]
                        \o <<"'">>),
                  datafile_before, files, dirs, ntmp)
  ELSE IF \E k \in GeneratePlotRequired : \A i \in 1..Len(kwargs.v) : kwargs.v[i][1] # k
  THEN not_called(Raise("TypeError", <<"_", "g", "e", "n", "e", "r", "a", "t", "e", "_", "p", "l", "o", "t", "(", ")", " ", "m", "i", "s", "s", "i", "n", "g", " ", "r", "e", "q", "u", "i", "r", "e", "d", " ", "p", "o", "s", "i", "t", "i", "o", "n", "a", "l", " ", "a", "r", "g", "u", "m", "e", "n", "t", "s">>),
                  datafile_before, files, dirs, ntmp)
  ELSE generate_plot(get(kwargs, <<"p", "a", "r", "a", "m", "s">>, None), get(kwargs, <<"l", "e", "v", "e", "l">>, None),
                     get(kwargs, <<"t", "i", "m", "e">>, None), get(kwargs, <<"t", "i", "m", "e", "_", "i", "n", "d", "e", "x">>, PyInt(0)),
                     get(kwargs, <<"n", "o", "_", "b", "r", "o", "w", "s", "e", "r">>, PyBool(FALSE)),
                     get(kwargs, <<"d", "o", "w", "n", "l", "o", "a", "d", "_", "d", "a", "t", "a">>, PyBool(FALSE)),
                     datafile_before, files, dirs, ntmp, coll)

\* what a call of analysis_plots came to: the arguments as parsed, the
\* configuration, the merged parameters if the call came to them, and what
\* the call of _generate_plot did
cli_outcome(p, config, merged, params, g) ==
  [result |-> g.result, parsed |-> p.ns, given |-> p.given, config |-> config,
   merged |-> merged, params |-> params, cfg_datafile |-> g.cfg_datafile, files |-> g.files,
   dirs |-> g.dirs, ntmp |-> g.ntmp, downloads |-> g.downloads,
   writer_calls |-> g.writer_calls, browser_calls |-> g.browser_calls, printed |-> g.printed]

\* lines 37-39
merge_and_generate(p, config, params, datafile_before, files, dirs, ntmp, coll) ==
  cli_outcome(p, config, TRUE, params,
              call_generate_plot(params, datafile_before, files, dirs, ntmp, coll))

\* lines 33-39, for the configuration as loaded, l
configured(p, l, datafile_before, files, dirs, ntmp, coll) ==
  IF l.error.kind = "raise"
  THEN cli_outcome(p, None, FALSE, EmptyDict, not_called(l.error, datafile_before, files, dirs, ntmp))
  ELSE merge_and_generate(p, l.config, merge_config_and_args(p.ns, l.config),
                          datafile_before, files, dirs, ntmp, coll)

\* lines 31-39, for the arguments as parsed, p
parsed(p, file, datafile_before, files, dirs, ntmp, coll) ==
  IF p.exit # ""
  THEN cli_outcome(p, None, FALSE, EmptyDict,
                   not_called(Raise("SystemExit", <<p.exit>>), datafile_before, files, dirs, ntmp))
  ELSE configured(p,
                  IF truthy(p.ns.config) THEN load_config(p.ns.config.v, file)
                  ELSE [error |-> Return(NoPath), config |-> EmptyDict],
                  datafile_before, files, dirs, ntmp, coll)

\* lines 29-39
analysis_plots(args, file, datafile_before, files, dirs, ntmp, coll) ==
  parsed(parse_args(args), file, datafile_before, files, dirs, ntmp, coll)

----
(* analysis_plots as a state machine: calls one after the other *)

MaxCli == 2

\* the arguments of the command line: a configuration file or none, and the
\* options given or not, as they are spelled in the parser and as they are
\* in tests/test_cli.py
CliArguments ==
  { c \o l \o g \o ti \o pl :
      c \in {<<>>, <<<<"c", "o", "n", "f", "i", "g", ".", "y", "a", "m", "l">>>>, <<<<"c", "o", "n", "f", "i", "g", ".", "t", "x", "t">>>>},
      l \in {<<>>, <<<<"-", "l", "v", "l">>, <<"8", "5", "0">>>>, <<<<"-", "-", "l", "v", "l">>, <<"8", "5", "0">>>>, <<<<"-", "l", "v", "l">>, <<"0">>>>},
      g \in {<<>>, <<<<"-", "l", "a", "t">>, <<"4", "8">>, <<"-", "l", "o", "n">>, <<"1", "2">>>>},
      ti \in {<<>>, <<<<"-", "t", "i">>, <<"2">>>>},
      pl \in {<<>>, <<<<"-", "p", "l">>, <<"s", "k", "e", "w", "T">>>>, <<<<"-", "p", "l">>, <<"s", "c", "a", "l", "a", "r", "_", "w", "i", "n", "d">>>>} }
  \cup
  { <<<<"-", "p">>, <<"t">>, <<"-", "-", "l", "v", "l">>, <<"8", "5", "0">>, <<"-", "-", "u", "1">>, <<"u">>, <<"-", "-", "u", "2">>, <<"v">>, <<"-", "t">>, <<"2", "0", "2", "5", "1", "0", "0", "1", "0", "0", "0", "0">>, <<"-", "-", "n", "o", "-", "b", "r", "o", "w", "s", "e", "r">>>>,
    <<<<"-", "p">>, <<"t">>, <<"-", "-", "l", "v", "l">>, <<"8", "5", "0">>, <<"-", "-", "u", "1">>, <<"u">>, <<"-", "-", "u", "2">>, <<"v">>, <<"-", "-", "n", "o", "-", "b", "r", "o", "w", "s", "e", "r">>, <<"-", "t">>, <<"2", "0", "2", "5", "1", "0", "0", "1", "0", "0", "0", "0">>>>,
    <<<<"-", "p">>, <<"t">>, <<"-", "-", "l", "v", "l">>, <<"8", "5", "0">>, <<"-", "-", "u", "1">>, <<"u">>, <<"-", "-", "u", "2">>, <<"v">>, <<"-", "-", "t", "i">>, <<"0">>, <<"-", "-", "n", "o", "-", "b", "r", "o", "w", "s", "e", "r">>, <<"-", "t">>, <<"2", "0", "2", "5", "1", "0", "0", "1", "0", "0", "0", "0">>>>,
    <<<<"-", "p">>, <<"t">>, <<"-", "l", "v", "l">>, <<"8", "5", "0">>, <<"-", "u", "1">>, <<"u">>, <<"-", "u", "2">>, <<"v">>, <<"-", "t">>, <<"2", "0", "2", "5", "1", "0", "0", "1", "0", "0", "0", "0">>, <<"-", "-", "n", "o", "-", "b", "r", "o", "w", "s", "e", "r">>>>,
    <<<<"c", "o", "n", "f", "i", "g", ".", "y", "a", "m", "l">>, <<"-", "p">>, <<"t">>, <<"-", "u", "1">>, <<"u", "1", "0">>, <<"-", "t">>, <<"2", "0", "2", "5", "1", "0", "0", "1", "0", "0", "0", "0">>, <<"-", "-", "d", "i", "r", "e", "c", "t", "o", "r", "y">>, <<"h", "t", "m", "l">>, <<"-", "-", "d", "o", "w", "n", "l", "o", "a", "d", "-", "d", "a", "t", "a">>>>,
    <<<<"-", "h">>>>, <<<<"-", "-", "h", "e", "l", "p">>>>, <<<<"-", "-", "v">>>>, <<<<"-", "-", "v", "e", "r", "s", "i", "o", "n">>>> }

\* tests/test_cli.py 80-91
test_config ==
  PyDict(<< <<<<"p", "l", "o", "t", "_", "t", "y", "p", "e">>, PyStr(<<"s", "c", "a", "l", "a", "r", "_", "w", "i", "n", "d">>)>>,
            <<<<"n", "o", "_", "b", "r", "o", "w", "s", "e", "r">>, PyBool(TRUE)>>,
            <<<<"d", "i", "r", "e", "c", "t", "o", "r", "y">>, PyStr(<<".">>)>>,
            <<<<"s", "c", "a", "l", "a", "r", "_", "w", "i", "n", "d">>,
              PyDict(<< <<<<"p", "a", "r", "a", "m", "e", "t", "e", "r">>, PyStr(<<"z">>)>>, <<<<"u">>, PyStr(<<"u">>)>>,
                        <<<<"v">>, PyStr(<<"v">>)>>, <<<<"l", "e", "v", "e", "l">>, PyInt(500)>>,
                        <<<<"t", "i", "m", "e">>, PyStr(<<"2", "0", "2", "5", "-", "1", "0", "-", "0", "1", "T", "0", "0", ":", "0", "0">>)>> >>)>> >>)

\* a configuration for a Skew-T diagram, with a common section
skewT_config ==
  PyDict(<< <<<<"p", "l", "o", "t", "_", "t", "y", "p", "e">>, PyStr(<<"s", "k", "e", "w", "T">>)>>,
            <<<<"c", "o", "m", "m", "o", "n">>,
              PyDict(<< <<<<"t", "i", "m", "e">>, PyStr(<<"2", "0", "2", "5", "-", "1", "0", "-", "0", "1", "T", "0", "0", ":", "0", "0">>)>>,
                        <<<<"d", "i", "r", "e", "c", "t", "o", "r", "y">>, PyStr(<<"o", "u", "t">>)>>,
                        <<<<"n", "o", "_", "b", "r", "o", "w", "s", "e", "r">>, PyBool(TRUE)>> >>)>>,
            <<<<"s", "k", "e", "w", "T">>,
              PyDict(<< <<<<"l", "a", "t">>, PyInt(47)>>, <<<<"l", "o", "n">>, PyInt(11)>>,
                        <<<<"d", "o", "w", "n", "l", "o", "a", "d", "_", "d", "a", "t", "a">>, PyBool(TRUE)>> >>)>>,
            <<<<"s", "c", "a", "l", "a", "r", "_", "w", "i", "n", "d">>,
              PyDict(<< <<<<"p", "a", "r", "a", "m", "e", "t", "e", "r">>, PyStr(<<"t">>)>>, <<<<"l", "e", "v", "e", "l">>, PyInt(700)>>,
                        <<<<"t", "i", "m", "e", "_", "i", "n", "d", "e", "x">>, PyInt(4)>>, <<<<"l", "a", "t">>, PyInt(46)>>,
                        <<<<"l", "o", "n">>, PyInt(10)>> >>)>> >>)

\* the file a configuration path names: none, an empty one, or one of the
\* configurations
ConfigFiles ==
  { [exists |-> FALSE, content |-> None], [exists |-> TRUE, content |-> None],
    [exists |-> TRUE, content |-> test_config], [exists |-> TRUE, content |-> skewT_config] }

\* what the collaborators of a call do
Collaborators ==
  [download : {"written", "raised"},
   env : [fails : {"none"}, template : {CHOOSE t \in Templates : TRUE},
          dataset : {CHOOSE d \in Datasets : TRUE}],
   browser : {"opened"}]

NoCli ==
  [made |-> FALSE, args |-> <<>>, result |-> Raise("", <<>>), parsed |-> Namespace,
   given |-> {}, config |-> None, merged |-> FALSE, params |-> EmptyDict,
   downloads |-> <<>>, writer_calls |-> <<>>, browser_calls |-> <<>>, printed |-> <<>>]

InitCli ==
  /\ cli = NoCli
  /\ ncli = 0

AnalysisPlots(args, file, coll) ==
  /\ ncli < MaxCli
  /\ \E r \in {analysis_plots(args, file, cfg_datafile, fs, outdirs, tmpcount, coll)} :
       /\ cfg_datafile' = r.cfg_datafile
       /\ fs' = r.files
       /\ outdirs' = r.dirs
       /\ tmpcount' = r.ntmp
       /\ cli' = [made |-> TRUE, args |-> args, result |-> r.result, parsed |-> r.parsed,
                  given |-> r.given, config |-> r.config, merged |-> r.merged,
                  params |-> r.params, downloads |-> r.downloads,
                  writer_calls |-> r.writer_calls, browser_calls |-> r.browser_calls,
                  printed |-> r.printed]
  /\ ncli' = ncli + 1
  /\ UNCHANGED <<cache_dir, pre, last, ncalls, resolved, dlcount, hashvars, requestvars,
                 run, nruns, html, nhtml, racevars>>

----
(* Era5Cache.get_analysis_plots_data called by two processes at once on    *)
(* one cache directory.  The code takes no lock, so the steps of the two    *)
(* calls interleave: lines 82-119 (which read no file), the test of line    *)
(* 122, the download of line 126 and the test of line 129.  client.retrieve *)
(* writes the target as the data arrive: the file is there from the start   *)
(* of the download and complete at its end.  A file is its content, the     *)
(* process whose download completed it last, and the processes writing it   *)

MaxProcs == 2

Procs == 1..MaxProcs

NoFile == [content |-> "", by |-> 0, writing |-> {}]

Idle ==
  [pc |-> "idle", args |-> <<None, None, None>>, target |-> NoPath, saw |-> "",
   downloads |-> <<>>, result |-> Raise("", <<>>), seen |-> NoFile]

\* the calls of the two processes: one request at two times of an hour and
\* at one of the next hour, and one without a time
RaceCalls ==
  {a \in KeyCalls : a[2] = PyInt(850)} \cup {<<PyList(<<PyStr(<<"t">>)>>), PyInt(850), None>>}

\* lines 82-119: the error raised there, or the target path
enter(self, a) ==
  IF prepared[a].error.kind = "raise"
  THEN [Idle EXCEPT !.pc = "done", !.args = a, !.result = prepared[a].error]
  ELSE [Idle EXCEPT !.pc = "check", !.args = a, !.target = target_path(self, prepared[a].key)]

\* lines 122-123
check_target(c, files) ==
  IF c.target.name \in DOMAIN files
  THEN [c EXCEPT !.pc = "done", !.saw = "present", !.result = Return(c.target),
                 !.seen = files[c.target.name]]
  ELSE [c EXCEPT !.pc = "download", !.saw = "absent"]

\* a file with one entry set
put_file(files, name, file) ==
  [n \in DOMAIN files \cup {name} |-> IF n = name THEN file ELSE files[n]]

\* the file a process p opens for writing at a path: what was there is
\* truncated
opened(files, name, p) ==
  [content |-> "partial", by |-> 0,
   writing |-> IF name \in DOMAIN files THEN files[name].writing \cup {p} ELSE {p}]

\* line 126 with the test of line 122 made again under a lock: the download is
\* left out when the target is there by now
start_download_locked(p, c, files, outcome) ==
  IF c.target.name \in DOMAIN files
  THEN [proc |-> [c EXCEPT !.pc = "verify"], files |-> files]
  ELSE [proc |->
          [c EXCEPT !.pc = CASE outcome = "written" -> "writing"
                           [] outcome = "nothing" -> "verify"
                           [] OTHER -> "done",
                    !.downloads = Append(@, [request |-> prepared[c.args].req_dict,
                                             target |-> c.target]),
                    !.result = IF outcome \in {"raised", "raised_partial"}
                               THEN Raise("CdsError", <<>>) ELSE @],
        files |->
          CASE outcome = "written" -> put_file(files, c.target.name, opened(files, c.target.name, p))
            [] outcome = "raised_partial" ->
                 put_file(files, c.target.name,
                          [opened(files, c.target.name, p) EXCEPT !.writing = @ \ {p}])
            [] OTHER -> files]

\* line 126, from the call to the first byte written: the collaborator is
\* called with the request and the target, and opens the target, returns
\* without a file, or raises with nothing or a part of the file written
start_download(p, c, files, outcome) ==
  [proc |->
     [c EXCEPT !.pc = CASE outcome = "written" -> "writing"
                      [] outcome = "nothing" -> "verify"
                      [] OTHER -> "done",
               !.downloads = Append(@, [request |-> prepared[c.args].req_dict,
                                        target |-> c.target]),
               !.result = IF outcome \in {"raised", "raised_partial"}
                          THEN Raise("CdsError", <<>>) ELSE @],
   files |->
     CASE outcome = "written" -> put_file(files, c.target.name, opened(files, c.target.name, p))
       [] outcome = "raised_partial" ->
            put_file(files, c.target.name,
                     [opened(files, c.target.name, p) EXCEPT !.writing = @ \ {p}])
       [] OTHER -> files]

\* line 126, the end of a download that writes the file: the last byte is
\* written and the collaborator returns; the file is complete unless another
\* process, which truncated it, is still writing
finish_download(p, c, files) ==
  [proc |-> [c EXCEPT !.pc = "verify"],
   files |-> put_file(files, c.target.name,
                      [content |-> IF files[c.target.name].writing = {p} THEN "data"
                                   ELSE "partial",
                       by |-> p, writing |-> files[c.target.name].writing \ {p}])]

\* lines 129-132
verify_target(c, files) ==
  IF c.target.name \in DOMAIN files
  THEN [c EXCEPT !.pc = "done", !.result = Return(c.target), !.seen = files[c.target.name]]
  ELSE [c EXCEPT !.pc = "done",
                 !.result = Raise("RuntimeError", <<"E", "R", "A", "5", " ", "d", "o", "w", "n", "l", "o", "a", "d", " ", "f", "a", "i", "l", "e", "d", ":", " ">> \o path_str(c.target))]

InitRace ==
  race = [files |-> [n \in {} |-> NoFile], proc |-> [p \in Procs |-> Idle],
          finished |-> <<>>]

Enter(p, a) ==
  /\ race.proc[p].pc = "idle"
  /\ race' = [race EXCEPT !.proc[p] = enter(cache_dir, a)]
  /\ UNCHANGED <<cachevars, hashvars, requestvars, runvars, htmlvars, clivars>>

Check(p) ==
  /\ race.proc[p].pc = "check"
  /\ race' = [race EXCEPT !.proc[p] = check_target(race.proc[p], race.files)]
  /\ UNCHANGED <<cachevars, hashvars, requestvars, runvars, htmlvars, clivars>>

StartDownload(p, outcome) ==
  /\ race.proc[p].pc = "download"
  /\ \E d \in {start_download(p, race.proc[p], race.files, outcome)} :
       race' = [race EXCEPT !.proc[p] = d.proc, !.files = d.files]
  /\ UNCHANGED <<cachevars, hashvars, requestvars, runvars, htmlvars, clivars>>

FinishDownload(p) ==
  /\ race.proc[p].pc = "writing"
  /\ \E d \in {finish_download(p, race.proc[p], race.files)} :
       race' = [race EXCEPT !.proc[p] = d.proc, !.files = d.files,
                            !.finished = Append(@, [proc |-> p, name |-> race.proc[p].target.name])]
  /\ UNCHANGED <<cachevars, hashvars, requestvars, runvars, htmlvars, clivars>>

Verify(p) ==
  /\ race.proc[p].pc = "verify"
  /\ race' = [race EXCEPT !.proc[p] = verify_target(race.proc[p], race.files)]
  /\ UNCHANGED <<cachevars, hashvars, requestvars, runvars, htmlvars, clivars>>

----
Init == InitCache /\ InitHash /\ InitRequest /\ InitRun /\ InitHtml /\ InitCli /\ InitRace

Next ==
  \E variables \in Variables, level \in Levels, time \in Times, outcome \in DownloadOutcomes :
    Call(variables, level, time, outcome)

Spec == Init /\ [][Next]_vars

\* the hash alone: the cache stays as constructed, with an empty directory
InitHashOnly ==
  /\ InitCache
  /\ cache_dir = cwd
  /\ fs = NoFiles
  /\ InitHash
  /\ InitRequest
  /\ InitRun
  /\ InitHtml
  /\ InitCli
  /\ InitRace

NextHash == \E m \in HashInputs : HashCall(m)

SpecHash == InitHashOnly /\ [][NextHash]_vars

\* an Era5Request alone
NextRequest ==
  \/ \E variables \in Variables, level \in Levels, time \in Times :
       Construct(variables, level, time)
  \/ \E name \in FieldNames, value \in FieldValues : SetAttr(name, value)
  \/ ToDict

SpecRequest == InitHashOnly /\ [][NextRequest]_vars

\* run_analysis_plots alone
NextRun ==
  \E a \in RunArguments, download \in DownloadOutcomes, writer \in WriterOutcomes :
    \E browser \in IF a.no_browser THEN {"opened"} ELSE BrowserOutcomes :
      RunAnalysisPlots(a, download, writer, browser)

SpecRun == InitHashOnly /\ [][NextRun]_vars

\* the HTML writers alone
NextHtml == \E a \in HtmlArguments, env \in Environments : WriteHtml(a, env)

SpecHtml == InitHashOnly /\ [][NextHtml]_vars

\* analysis_plots alone
NextCli ==
  \E args \in CliArguments, file \in ConfigFiles, coll \in Collaborators :
    AnalysisPlots(args, file, coll)

SpecCli == InitHashOnly /\ [][NextCli]_vars

\* the calls that differ in the form of their arguments, on a cache that is
\* empty at first
NextKeys ==
  \E a \in KeyCalls, outcome \in DownloadOutcomes : Call(a[1], a[2], a[3], outcome)

SpecKeys == InitHashOnly /\ [][NextKeys]_vars

\* two calls of get_analysis_plots_data at once
NextRace ==
  \E p \in Procs :
    \/ \E a \in RaceCalls : Enter(p, a)
    \/ Check(p)
    \/ \E outcome \in DownloadOutcomes : StartDownload(p, outcome)
    \/ FinishDownload(p)
    \/ Verify(p)

SpecRace == InitHashOnly /\ [][NextRace]_vars

----
(* Properties of Era5Cache.get_analysis_plots_data, on the state left by   *)
(* the last call: pre is the directory before it, fs the directory after.  *)

\* the value a dict has for a key
dict_get(d, key) == d.v[CHOOSE i \in 1..Len(d.v) : d.v[i][1] = key][2]
dict_keys(d) == {d.v[i][1] : i \in 1..Len(d.v)}

\* the last call came to a target path: its time was given and was a date
Targeted == last.made /\ last.time.t = "str" /\ to_datetime(last.time).ok

\* the target file of the last call was there, or was not, when it was called
Hit == Targeted /\ last.target.name \in DOMAIN pre
Miss == Targeted /\ last.target.name \notin DOMAIN pre

\* C1: when the target file of the request exists at the call (time not None),
\* the call returns that path, the download collaborator is not called and
\* the directory is left as it was, whatever the file holds
C1_CacheHit ==
  Hit => /\ last.result = Return(last.target)
         /\ last.target.dir = cache_dir
         /\ last.downloads = <<>>
         /\ fs = pre

\* a hit on a file that was touched and is empty
C1_Witness ==
  /\ Hit
  /\ pre[last.target.name] = "empty"
  /\ last.result = Return(last.target)
  /\ last.downloads = <<>>

\* C2: when the target file does not exist at the call, the download
\* collaborator is called exactly once, with the request mapping of the
\* arguments and the target path; when it returns having written the file, the
\* call returns the target path, which exists and ends in .nc
C2_CacheMiss ==
  Miss =>
    /\ Len(last.downloads) = 1
    /\ last.downloads[1].request
         = request_dict(last.variables, last.level, to_datetime(last.time))
    /\ last.downloads[1].target = last.target
    /\ last.target.dir = cache_dir
    /\ last.outcome = "written" =>
         /\ last.result = Return(last.target)
         /\ last.result.value.name \in DOMAIN fs
         /\ SubSeq(last.result.value.name, Len(last.result.value.name) - 2,
                   Len(last.result.value.name)) = <<".", "n", "c">>

\* a miss whose download wrote the file
C2_Witness ==
  /\ Miss
  /\ last.outcome = "written"
  /\ Len(last.downloads) = 1
  /\ last.result = Return(last.target)
  /\ fs[last.target.name] = "data"

\* C3: a call with time None raises ValueError("time not available") for every
\* variables and level, without a call of the download collaborator and with
\* the directory unchanged
C3_MissingTime ==
  (last.made /\ last.time = None) =>
    /\ last.result = Raise("ValueError", <<"t", "i", "m", "e", " ", "n", "o", "t", " ", "a", "v", "a", "i", "l", "a", "b", "l", "e">>)
    /\ last.downloads = <<>>
    /\ fs = pre

\* time None with a list of levels, in a directory that holds a file
C3_Witness ==
  /\ last.made /\ last.time = None
  /\ last.level.t = "list"
  /\ last.variables.t = "list"
  /\ pre # NoFiles
  /\ last.result.type = "ValueError"
  /\ fs = pre

\* C4: when the download collaborator returns and the target file does not
\* exist, the call raises a RuntimeError whose message ends with the target
\* path; and a path a call returns always exists when it is returned
C4_DownloadFailure ==
  /\ (last.made /\ last.outcome = "nothing") =>
       /\ last.result.kind = "raise"
       /\ last.result.type = "RuntimeError"
       /\ last.result.msg
            = <<"E", "R", "A", "5", " ", "d", "o", "w", "n", "l", "o", "a", "d", " ", "f", "a", "i", "l", "e", "d", ":", " ">> \o cache_dir \o <<"/">> \o last.target.name
  /\ (last.made /\ last.result.kind = "return") =>
       /\ last.result.value.dir = cache_dir
       /\ last.result.value.name \in DOMAIN fs

\* a download that returned and left no file
C4_Witness ==
  /\ last.made /\ last.outcome = "nothing"
  /\ last.target.name \notin DOMAIN fs
  /\ last.result.type = "RuntimeError"

\* the arguments of the call that is made in a step
same_args(l, r) ==
  l.variables = r.variables /\ l.level = r.level /\ l.time = r.time

\* C5, as amended: once a call for some arguments has returned, every later
\* call with the same arguments returns the same path without a call of the
\* download collaborator; and no download is made for a digest whose target
\* file exists
C5_IdempotentHit ==
  [][ /\ \A r \in resolved :
           same_args(last', r) =>
             last'.result = Return(r.path) /\ last'.downloads = <<>>
      /\ \A n \in DOMAIN fs : dlcount'[n] = dlcount[n]
    ]_vars

\* a second call with the arguments of a first one that downloaded and returned
C5_Witness ==
  /\ ncalls = 2
  /\ Hit
  /\ dlcount[last.target.name] = 1
  /\ \E r \in resolved : same_args(last, r) /\ last.result = Return(r.path)
  /\ last.downloads = <<>>

\* C5, as stated: at most one download per request digest
C5_AtMostOneDownload == \A n \in DOMAIN dlcount : dlcount[n] <= 1

\* C9: a call with level None builds a request mapping whose pressure_level
\* is the list of the 27 levels from 1000 down to 100, in that order, on
\* every call
C9_FullColumn ==
  (Targeted /\ last.level = None) =>
    LET levels == dict_get(last.req_dict, <<"p", "r", "e", "s", "s", "u", "r", "e", "_", "l", "e", "v", "e", "l">>)
    IN  /\ levels = ALL_PRESSURE_LEVELS
        /\ Len(levels.v) = 27
        /\ levels.v[1] = PyStr(<<"1", "0", "0", "0">>)
        /\ levels.v[27] = PyStr(<<"1", "0", "0">>)
        /\ \A i \in 1..(27 - 1) : parse_int(levels.v[i].v) > parse_int(levels.v[i + 1].v)
        /\ last.downloads # <<>> => last.downloads[1].request = last.req_dict

\* a second call with level None, after a first one
C9_Witness ==
  /\ ncalls = 2
  /\ Targeted /\ last.level = None
  /\ Len(dict_get(last.req_dict, <<"p", "r", "e", "s", "s", "u", "r", "e", "_", "l", "e", "v", "e", "l">>).v) = 27
  /\ last.downloads # <<>>

\* C10: for a scalar level and a time YYYY-MM-DDTHH:MM, the request mapping
\* has pressure_level [str(level)], the year, month, day of the time in 4, 2
\* and 2 digits, time ["HH:00"], the variables as given and the fixed
\* product_type, data_format, download_format and area; and the target path
\* is cache_dir/era5_<request_hash of the mapping>.nc
C10_CanonicalMapping ==
  (Targeted /\ last.level.t = "int") =>
    LET s == last.time.v
        d == last.req_dict
    IN  /\ dict_keys(d) = { <<"p", "r", "o", "d", "u", "c", "t", "_", "t", "y", "p", "e">>, <<"v", "a", "r", "i", "a", "b", "l", "e">>, <<"y", "e", "a", "r">>, <<"m", "o", "n", "t", "h">>, <<"d", "a", "y">>, <<"t", "i", "m", "e">>, <<"p", "r", "e", "s", "s", "u", "r", "e", "_", "l", "e", "v", "e", "l">>,
                            <<"d", "a", "t", "a", "_", "f", "o", "r", "m", "a", "t">>, <<"d", "o", "w", "n", "l", "o", "a", "d", "_", "f", "o", "r", "m", "a", "t">>, <<"a", "r", "e", "a">> }
        /\ Len(d.v) = Cardinality(dict_keys(d))
        /\ dict_get(d, <<"p", "r", "e", "s", "s", "u", "r", "e", "_", "l", "e", "v", "e", "l">>) = PyList(<<PyStr(nat_str(last.level.v))>>)
        /\ dict_get(d, <<"y", "e", "a", "r">>) = PyList(<<PyStr(SubSeq(s, 1, 4))>>)
        /\ dict_get(d, <<"m", "o", "n", "t", "h">>) = PyList(<<PyStr(SubSeq(s, 6, 7))>>)
        /\ dict_get(d, <<"d", "a", "y">>) = PyList(<<PyStr(SubSeq(s, 9, 10))>>)
        /\ dict_get(d, <<"t", "i", "m", "e">>) = PyList(<<PyStr(SubSeq(s, 12, 13) \o <<":", "0", "0">>)>>)
        /\ dict_get(d, <<"v", "a", "r", "i", "a", "b", "l", "e">>) = last.variables
        /\ dict_get(d, <<"p", "r", "o", "d", "u", "c", "t", "_", "t", "y", "p", "e">>) = PyList(<<PyStr(<<"r", "e", "a", "n", "a", "l", "y", "s", "i", "s">>)>>)
        /\ dict_get(d, <<"d", "a", "t", "a", "_", "f", "o", "r", "m", "a", "t">>) = PyStr(<<"n", "e", "t", "c", "d", "f">>)
        /\ dict_get(d, <<"d", "o", "w", "n", "l", "o", "a", "d", "_", "f", "o", "r", "m", "a", "t">>) = PyStr(<<"u", "n", "a", "r", "c", "h", "i", "v", "e", "d">>)
        /\ dict_get(d, <<"a", "r", "e", "a">>) = PyList(<<PyInt(70), PyInt(-20), PyInt(30), PyInt(50)>>)
        /\ last.target = [dir |-> cache_dir,
                          name |-> <<"e", "r", "a", "5", "_">> \o request_hash(d) \o <<".", "n", "c">>]

\* variables ["t"], level 850, time "2025-03-02T00:00"
C10_Witness ==
  /\ last.made
  /\ last.variables = PyList(<<PyStr(<<"t">>)>>)
  /\ last.level = PyInt(850)
  /\ last.time = PyStr(<<"2", "0", "2", "5", "-", "0", "3", "-", "0", "2", "T", "0", "0", ":", "0", "0">>)
  /\ dict_get(last.req_dict, <<"p", "r", "e", "s", "s", "u", "r", "e", "_", "l", "e", "v", "e", "l">>) = PyList(<<PyStr(<<"8", "5", "0">>)>>)
  /\ dict_get(last.req_dict, <<"y", "e", "a", "r">>) = PyList(<<PyStr(<<"2", "0", "2", "5">>)>>)
  /\ dict_get(last.req_dict, <<"m", "o", "n", "t", "h">>) = PyList(<<PyStr(<<"0", "3">>)>>)
  /\ dict_get(last.req_dict, <<"d", "a", "y">>) = PyList(<<PyStr(<<"0", "2">>)>>)
  /\ dict_get(last.req_dict, <<"t", "i", "m", "e">>) = PyList(<<PyStr(<<"0", "0", ":", "0", "0">>)>>)
  /\ last.target.name = <<"e", "r", "a", "5", "_", "a", "f", "f", "2", "4", "9", "c", "b", "8", "7", "d", "9", ".", "n", "c">>

----
(* Properties of request_hash, on the first and the last of the calls made *)

\* what a mapping holds, whatever the order its keys were inserted in
items(m) == {m.v[i] : i \in 1..Len(m.v)}

\* C6: two mappings with the same keys and values and a different insertion
\* order of the keys have the same request_hash
C6_KeyOrder ==
  (hcalls >= 2 /\ items(hfirst.request) = items(hlast.request)
     /\ hfirst.request # hlast.request)
    => hfirst.result = hlast.result

\* the three keys of tests/test_hashing.py, in two orders
C6_Witness ==
  /\ hcalls >= 2
  /\ Len(hfirst.request.v) = 3
  /\ items(hfirst.request) = items(hlast.request)
  /\ hfirst.request.v[1] # hlast.request.v[1]
  /\ hfirst.result = hlast.result

\* two mappings have a key to which they give different values
differ_in_value(m1, m2) ==
  \E i \in 1..Len(m1.v), j \in 1..Len(m2.v) :
    m1.v[i][1] = m2.v[j][1] /\ m1.v[i][2] # m2.v[j][2]

\* C7: two mappings that give some key different values (another string, a
\* number for a string, another element of a list) have different request_hash
C7_Sensitivity ==
  (hcalls >= 2 /\ differ_in_value(hfirst.request, hlast.request))
    => hfirst.result # hlast.result

\* mappings of three keys that differ in the element of one list alone
C7_Witness ==
  /\ hcalls >= 2
  /\ Len(hfirst.request.v) = 3
  /\ Cardinality(items(hfirst.request) \ items(hlast.request)) = 1
  /\ Cardinality(items(hlast.request) \ items(hfirst.request)) = 1
  /\ differ_in_value(hfirst.request, hlast.request)
  /\ hfirst.result # hlast.result

is_hex(c) == \E k \in 1..16 : HexDigits[k] = c

----
(* The files of cache_dir over a call *)

\* C11: a call leaves every file that was in cache_dir as it was, and the
\* files after it are the files before it and at most the target file of the
\* request; a call that comes to no target leaves the files as they were
C11_Frame ==
  last.made =>
    /\ \A n \in DOMAIN pre : n \in DOMAIN fs /\ fs[n] = pre[n]
    /\ (DOMAIN fs) \ (DOMAIN pre) \subseteq
         (IF Targeted THEN {last.target.name} ELSE {})
    /\ Cardinality((DOMAIN fs) \ (DOMAIN pre)) <= 1

\* a download that wrote its target next to a file that was there before
C11_Witness ==
  /\ last.made
  /\ pre # NoFiles
  /\ (DOMAIN fs) \ (DOMAIN pre) = {last.target.name}
  /\ \A n \in DOMAIN pre : fs[n] = pre[n]

----
(* Failed downloads *)

\* the collaborator was called in the last call and failed
Failed == last.made /\ last.outcome \in {"nothing", "raised", "raised_partial"}

\* C12, as amended: a call invokes the download collaborator at most once,
\* also when it fails; what the collaborator raises is what the call raises;
\* and the call after a failed one, with the same arguments, downloads again
\* when the failed download left no target file, and returns the file that
\* was left, without a download, when it left one
C12_NoRetry ==
  [][ /\ Len(last'.downloads) <= 1
      /\ last'.outcome \in {"raised", "raised_partial"}
           => last'.result = Raise("CdsError", <<>>)
      /\ (Failed /\ same_args(last', last)) =>
           IF last.target.name \in DOMAIN fs
           THEN last'.downloads = <<>> /\ last'.result = Return(last.target)
           ELSE Len(last'.downloads) = 1 /\ last'.downloads[1].target = last.target
    ]_vars

\* a second download for the digest of a first one that failed
C12_Witness ==
  /\ ncalls = 2
  /\ Len(last.downloads) = 1
  /\ dlcount[last.target.name] = 2
  /\ Failed

\* C12, as stated: the call after a failed one, with the same arguments,
\* invokes the download collaborator again
C12_DownloadsAgain ==
  [][ (Failed /\ same_args(last', last)) => Len(last'.downloads) = 1 ]_vars

----
(* The request object *)

\* C13: an Era5Request has, until it is converted to a mapping and after, the
\* fields it was constructed with
C13_Immutable == era5request.made => era5request.obj = era5request.constructed

\* the key to_dict gives a field
key_of ==
     "product_type" :> <<"p", "r", "o", "d", "u", "c", "t", "_", "t", "y", "p", "e">>
     @@ "variable" :> <<"v", "a", "r", "i", "a", "b", "l", "e">>
     @@ "year" :> <<"y", "e", "a", "r">>
     @@ "month" :> <<"m", "o", "n", "t", "h">>
     @@ "day" :> <<"d", "a", "y">>
     @@ "time" :> <<"t", "i", "m", "e">>
     @@ "pressure_level" :> <<"p", "r", "e", "s", "s", "u", "r", "e", "_", "l", "e", "v", "e", "l">>
     @@ "data_format" :> <<"d", "a", "t", "a", "_", "f", "o", "r", "m", "a", "t">>
     @@ "download_format" :> <<"d", "o", "w", "n", "l", "o", "a", "d", "_", "f", "o", "r", "m", "a", "t">>
     @@ "area" :> <<"a", "r", "e", "a">>

\* C14: the mapping of a call has exactly the ten keys of to_dict, each with
\* the value of the field of the request built from the arguments; and the
\* mapping handed to the download collaborator is the mapping whose
\* request_hash names the target file
C14_MappingUnmodified ==
  Targeted =>
    LET r == build_request(last.variables, pressure_levels_for(last.level),
                           to_datetime(last.time))
    IN  /\ dict_keys(last.req_dict) = {key_of[f] : f \in FieldNames}
        /\ Len(last.req_dict.v) = 10
        /\ \A f \in FieldNames : dict_get(last.req_dict, key_of[f]) = r[f]
        /\ last.downloads # <<>> =>
             /\ last.downloads[1].request = last.req_dict
             /\ last.target.name
                  = <<"e", "r", "a", "5", "_">> \o request_hash(last.downloads[1].request)
                      \o <<".", "n", "c">>

\* a download for a request of a list of levels, with the mapping of ten keys
C14_Witness ==
  /\ Miss
  /\ last.level.t = "list"
  /\ Len(last.downloads) = 1
  /\ Len(last.downloads[1].request.v) = 10
  /\ dict_get(last.downloads[1].request, key_of["month"]).v[1] # dict_get(last.downloads[1].request, key_of["day"]).v[1]
  /\ last.target.name
       = <<"e", "r", "a", "5", "_">> \o request_hash(last.req_dict) \o <<".", "n", "c">>

\* the arguments of the last call of run_analysis_plots are one of the
\* combinations that are not accepted
InvalidArguments ==
  /\ run.made
  /\ \/ run.args.plot_type = "scalar_wind" /\ (run.args.parameter = None \/ run.args.level = None)
     \/ run.args.plot_type = "skewT"
          /\ (run.args.lat = None \/ run.args.lon = None \/ run.args.time = None)
     \/ run.args.plot_type = "vert_cross"
          /\ (run.args.lat0 = None \/ run.args.lon0 = None \/ run.args.lat1 = None
                \/ run.args.lon1 = None)
     \/ run.args.plot_type \notin {"scalar_wind", "skewT", "vert_cross"}
     \/ run.args.download_data /\ run.args.datafile # None

\* the last call of run_analysis_plots had no effect: no collaborator was
\* called, nothing was printed, and the files and cfg.datafile are as before
NoSideEffect ==
  /\ run.cache_calls = <<>>
  /\ run.downloads = <<>>
  /\ run.writer_calls = <<>>
  /\ run.browser_calls = <<>>
  /\ run.printed = <<>>
  /\ fs = run.files_before
  /\ cfg_datafile = run.datafile_before

\* C15: run_analysis_plots validates its arguments before any side effect:
\* scalar_wind with parameter or level None, skewT with lat, lon or time None,
\* vert_cross with one of lat0, lon0, lat1, lon1 None, an unknown plot_type, or
\* download_data=True with a datafile raise ValueError, and neither the cache
\* nor the download collaborator nor a plot writer is invoked
C15_ValidationFirst ==
  InvalidArguments =>
    /\ run.result.kind = "raise"
    /\ run.result.type = "ValueError"
    /\ NoSideEffect

\* a call with download_data=True and a datafile, its other arguments being
\* complete, made after a call that downloaded a file and set cfg.datafile
C15_Witness ==
  /\ InvalidArguments
  /\ run.args.plot_type = "scalar_wind"
  /\ run.args.parameter # None
  /\ run.args.level # None
  /\ run.args.time # None
  /\ run.args.download_data
  /\ run.args.datafile = test_nc
  /\ run.files_before # NoFiles
  /\ run.datafile_before # None
  /\ run.result = Raise("ValueError", <<"C", "a", "n", "n", "o", "t", " ", "s", "p", "e", "c", "i", "f", "y", " ", "b", "o", "t", "h", " ", "'", "d", "o", "w", "n", "l", "o", "a", "d", "_", "d", "a", "t", "a", "=", "T", "r", "u", "e", "'", " ", "a", "n", "d", " ", "a", " ", "'", "d", "a", "t", "a", "f", "i", "l", "e", "'", ".">>)

\* the last call of run_analysis_plots returned
Successful == run.made /\ run.result.kind = "return"

\* C16: after a successful call of run_analysis_plots, cfg.datafile is the data
\* file used for the plot (with download_data=True the path that
\* Era5Cache.get_analysis_plots_data returned, without a cache call the
\* example file of the plot type), the same file is passed to the plot
\* writer, which is called once, and the call returns the HTML path the
\* writer returned
C16_DatafileUsed ==
  Successful =>
    /\ Len(run.writer_calls) = 1
    /\ run.writer_calls[1].datafile = cfg_datafile
    /\ run.args.download_data =>
         /\ Len(run.cache_calls) = 1
         /\ cfg_datafile = run.cache_calls[1].returned
    /\ run.cache_calls = <<>> =>
         cfg_datafile = IF run.args.plot_type = "scalar_wind" THEN scalar_wind_datafile
                        ELSE skewT_datafile
    /\ run.result = Return(run.writer_returned)

\* a successful call with download_data=True that downloaded its file, made
\* when cfg.datafile was another file
C16_Witness ==
  /\ Successful
  /\ run.args.download_data
  /\ Len(run.downloads) = 1
  /\ run.datafile_before # None
  /\ run.datafile_before # cfg_datafile
  /\ cfg_datafile.dir = cwd
  /\ cfg_datafile.name \in DOMAIN fs
  /\ run.writer_returned = html_path("index.html")

\* the last call of run_analysis_plots was one for a Skew-T diagram with
\* download_data=True that came to its cache call
SkewTDownload ==
  /\ run.made
  /\ run.args.plot_type = "skewT"
  /\ run.args.download_data
  /\ run.cache_calls # <<>>

\* C17: a call of run_analysis_plots with plot_type="skewT" and
\* download_data=True resolves the cache with level=None, so that the
\* pressure_level of the request is the full vocabulary of 27 levels
C17_SkewTAllLevels ==
  SkewTDownload =>
    /\ run.cache_calls[1].level = None
    /\ dict_get(run.cache_calls[1].req_dict, key_of["pressure_level"]) = ALL_PRESSURE_LEVELS

\* what the code does: the cache is resolved with the list of 24 levels of
\* lines 175-179, and the request has these 24 levels as strings
C17_SkewTLevels ==
  SkewTDownload =>
    /\ run.cache_calls[1].level = SKEWT_LEVELS
    /\ Len(dict_get(run.cache_calls[1].req_dict, key_of["pressure_level"]).v) = 24
    /\ \A l \in {<<"2", "2", "5">>, <<"1", "7", "5">>, <<"1", "2", "5">>} :
         \A i \in 1..24 :
           dict_get(run.cache_calls[1].req_dict, key_of["pressure_level"]).v[i] # PyStr(l)

\* the merged parameters: the key of each, the attribute of the parsed
\* arguments and the key of the configuration it is merged from, and its default
MergedParameters ==
  { [key |-> <<"p", "l", "o", "t", "_", "t", "y", "p", "e">>, dest |-> "plot_type", config |-> <<"p", "l", "o", "t", "_", "t", "y", "p", "e">>, default |-> PyStr(<<"s", "c", "a", "l", "a", "r", "_", "w", "i", "n", "d">>)],
    [key |-> <<"p", "a", "r", "a", "m", "e", "t", "e", "r">>, dest |-> "parameter", config |-> <<"p", "a", "r", "a", "m", "e", "t", "e", "r">>, default |-> PyStr(<<"z">>)],
    [key |-> <<"l", "e", "v", "e", "l">>, dest |-> "level", config |-> <<"l", "e", "v", "e", "l">>, default |-> PyInt(500)],
    [key |-> <<"u", "1">>, dest |-> "u", config |-> <<"u">>, default |-> PyStr(<<"u">>)],
    [key |-> <<"u", "2">>, dest |-> "v", config |-> <<"v">>, default |-> PyStr(<<"v">>)],
    [key |-> <<"l", "a", "t">>, dest |-> "latitude", config |-> <<"l", "a", "t">>, default |-> None],
    [key |-> <<"l", "o", "n">>, dest |-> "longitude", config |-> <<"l", "o", "n">>, default |-> None],
    [key |-> <<"t", "i", "m", "e">>, dest |-> "time", config |-> <<"t", "i", "m", "e">>, default |-> None],
    [key |-> <<"t", "i", "m", "e", "_", "i", "n", "d", "e", "x">>, dest |-> "time_index", config |-> <<"t", "i", "m", "e", "_", "i", "n", "d", "e", "x">>, default |-> PyInt(0)],
    [key |-> <<"d", "i", "r", "e", "c", "t", "o", "r", "y">>, dest |-> "directory", config |-> <<"d", "i", "r", "e", "c", "t", "o", "r", "y">>, default |-> PyStr(<<".">>)],
    [key |-> <<"n", "o", "_", "b", "r", "o", "w", "s", "e", "r">>, dest |-> "no_browser", config |-> <<"n", "o", "_", "b", "r", "o", "w", "s", "e", "r">>, default |-> PyBool(FALSE)],
    [key |-> <<"d", "o", "w", "n", "l", "o", "a", "d", "_", "d", "a", "t", "a">>, dest |-> "download_data", config |-> <<"d", "o", "w", "n", "l", "o", "a", "d", "_", "d", "a", "t", "a">>, default |-> PyBool(FALSE)] }

\* the value the command line gave for a parameter, None if it gave none
cli_value(p) == IF p.dest \in cli.given THEN cli.parsed[p.dest] ELSE None

\* the plot type by the rule: of the command line, else of the configuration
ruled_plot_type ==
  cli_or_config(IF "plot_type" \in cli.given THEN cli.parsed.plot_type ELSE None,
                get(cli.config, <<"p", "l", "o", "t", "_", "t", "y", "p", "e">>, None), PyStr(<<"s", "c", "a", "l", "a", "r", "_", "w", "i", "n", "d">>))

\* the value the configuration has for a parameter, None if it has none: the
\* plot type at the top, directory and no_browser in the common section, the
\* time in the section of the plot type or else in the common one, the others
\* in the section of the plot type
config_value(p) ==
  IF p.key = <<"p", "l", "o", "t", "_", "t", "y", "p", "e">> THEN get(cli.config, <<"p", "l", "o", "t", "_", "t", "y", "p", "e">>, None)
  ELSE IF p.key \in {<<"d", "i", "r", "e", "c", "t", "o", "r", "y">>, <<"n", "o", "_", "b", "r", "o", "w", "s", "e", "r">>}
  THEN get(get(cli.config, <<"c", "o", "m", "m", "o", "n">>, EmptyDict), p.config, None)
  ELSE IF p.key = <<"t", "i", "m", "e">>
  THEN cli_or_config(get(get(cli.config, ruled_plot_type.v, EmptyDict), <<"t", "i", "m", "e">>, None),
                     get(get(cli.config, <<"c", "o", "m", "m", "o", "n">>, EmptyDict), <<"t", "i", "m", "e">>, None), None)
  ELSE get(get(cli.config, ruled_plot_type.v, EmptyDict), p.config, None)

\* the parameter p is merged by the rule of cli_or_config
ByRule(p) ==
  get(cli.params, p.key, None) = cli_or_config(cli_value(p), config_value(p), p.default)

\* C18: for every merged parameter _merge_config_and_args yields the value of
\* the command line when one was given there, otherwise the value of the
\* configuration when it has one, otherwise the default
C18_CliPrecedence ==
  (cli.made /\ cli.merged) => \A p \in MergedParameters : ByRule(p)

\* what the code does: the rule holds for a parameter other than lat and lon
\* whose value on the command line, if one was given, is not 0 or empty, when
\* the plot type was given on the command line or the configuration has none
\* other than scalar_wind
C18_RuleWhereTruthy ==
  (cli.made /\ cli.merged) =>
    \A p \in MergedParameters :
      ( /\ p.key \notin {<<"l", "a", "t">>, <<"l", "o", "n">>}
        /\ p.dest \in cli.given => truthy(cli.parsed[p.dest])
        /\ "plot_type" \in cli.given
             \/ get(cli.config, <<"p", "l", "o", "t", "_", "t", "y", "p", "e">>, PyStr(<<"s", "c", "a", "l", "a", "r", "_", "w", "i", "n", "d">>)) = PyStr(<<"s", "c", "a", "l", "a", "r", "_", "w", "i", "n", "d">>) )
      => ByRule(p)

\* what the code does with a latitude given on the command line: it is not
\* the merged one
C18_LatitudeDropped ==
  (cli.made /\ cli.merged /\ "latitude" \in cli.given) =>
    /\ cli.parsed.latitude # None
    /\ get(cli.params, <<"l", "a", "t">>, None) # cli.parsed.latitude

\* the command line of the claim, with a parameter, a level and a time of the
\* data set
FormedCall ==
  <<<<"-", "p">>, <<"t">>, <<"-", "-", "l", "v", "l">>, <<"8", "5", "0">>, <<"-", "-", "u", "1">>, <<"u">>, <<"-", "-", "u", "2">>, <<"v">>, <<"-", "t">>, <<"2", "0", "2", "5", "1", "0", "0", "1", "0", "0", "0", "0">>, <<"-", "-", "n", "o", "-", "b", "r", "o", "w", "s", "e", "r">>>>

\* C19: analysis_plots(["-p", param, "--lvl", level, "--u1", "u", "--u2", "v",
\* "-t", time, "--no-browser"]) runs through the parsing, the merging and
\* _generate_plot, prints "File successfully generated at:" and the HTML
\* path, and does not raise
C19_FormedCallCompletes ==
  (cli.made /\ cli.args = FormedCall) =>
    /\ cli.result.kind = "return"
    /\ cli.merged
    /\ Len(cli.printed) = 1
    /\ startswith(cli.printed[1], <<"F", "i", "l", "e", " ", "s", "u", "c", "c", "e", "s", "s", "f", "u", "l", "l", "y", " ", "g", "e", "n", "e", "r", "a", "t", "e", "d", " ", "a", "t", ":">>)

\* what the code does with this command line: the parser knows no --lvl,
\* --u1 or --u2, and the call ends in SystemExit(2) before the merging
C19_FormedCallExits ==
  (cli.made /\ cli.args = FormedCall) =>
    /\ cli.result = Raise("SystemExit", <<"2">>)
    /\ ~cli.merged
    /\ cli.printed = <<>>

\* what the code does with any command line: no call of analysis_plots
\* returns, and one that comes to _generate_plot raises the TypeError of
\* the keyword plot_type, with nothing written, downloaded or printed
C19_NoCallCompletes ==
  cli.made =>
    /\ cli.result.kind = "raise"
    /\ cli.printed = <<>>
    /\ cli.writer_calls = <<>>
    /\ cli.downloads = <<>>
    /\ cli.merged =>
         cli.result = Raise("TypeError", <<"_", "g", "e", "n", "e", "r", "a", "t", "e", "_", "p", "l", "o", "t", "(", ")", " ", "g", "o", "t", " ", "a", "n", " ", "u", "n", "e", "x", "p", "e", "c", "t", "e", "d", " ", "k", "e", "y", "w", "o", "r", "d", " ", "a", "r", "g", "u", "m", "e", "n", "t", " ", "'", "p", "l", "o", "t", "_", "t", "y", "p", "e", "'">>)

\* the last call of an HTML writer returned
Written == html.made /\ html.result.kind = "return"

\* the name n is the one put for each [IMGTYPE] of the template in the page
Substituted(page, n) ==
  /\ Len(page) = Len(html.env.template)
  /\ \E i \in 1..Len(page) : html.env.template[i] = <<"[", "I", "M", "G", "T", "Y", "P", "E", "]">>
  /\ \A i \in 1..Len(page) : html.env.template[i] = <<"[", "I", "M", "G", "T", "Y", "P", "E", "]">> => page[i] = n

\* C20: each HTML writer, when it returns, returns the path
\* <directory>/index.html (the directory given, or a new one when none is
\* given), that file exists, and the directory has a PNG file whose name is
\* the one substituted into the page for [IMGTYPE]
C20_PageAndImage ==
  Written =>
    /\ html.result.value.name = <<"i", "n", "d", "e", "x", ".", "h", "t", "m", "l">>
    /\ IF html.args.directory = None
       THEN html.result.value.dir \notin DOMAIN html.dirs_before
       ELSE html.result.value.dir = html.args.directory.v
    /\ html.result.value.dir \in DOMAIN outdirs
    /\ <<"i", "n", "d", "e", "x", ".", "h", "t", "m", "l">> \in DOMAIN outdirs[html.result.value.dir]
    /\ outdirs[html.result.value.dir][<<"i", "n", "d", "e", "x", ".", "h", "t", "m", "l">>].kind = "html"
    /\ \E n \in DOMAIN outdirs[html.result.value.dir] :
         /\ outdirs[html.result.value.dir][n].kind = "png"
         /\ endswith(n, <<".", "p", "n", "g">>)
         /\ Substituted(outdirs[html.result.value.dir][<<"i", "n", "d", "e", "x", ".", "h", "t", "m", "l">>].text, n)

\* the second of two calls without a directory: write_scalar_with_wind_html
\* with a time that has ':' and ' ' in it returned, and its image is in the
\* second directory made
C20_Witness ==
  /\ Written
  /\ html.args.writer = "write_scalar_with_wind_html"
  /\ html.args.directory = None
  /\ html.args.time = PyStr(<<"2", "0", "2", "5", "-", "0", "3", "-", "0", "2", " ", "0", "0", ":", "0", "0", ":", "0", "0">>)
  /\ html.result.value = [dir |-> <<"/", "t", "m", "p", "/", "t", "m", "p", "1">>, name |-> <<"i", "n", "d", "e", "x", ".", "h", "t", "m", "l">>]
  /\ <<"/", "t", "m", "p", "/", "t", "m", "p", "0">> \in DOMAIN html.dirs_before
  /\ <<"s", "c", "a", "l", "a", "r", "_", "w", "i", "n", "d", "_", "t", "_", "8", "5", "0", "_", "2", "0", "2", "5", "-", "0", "3", "-", "0", "2", "_", "0", "0", "-", "0", "0", "-", "0", "0", ".", "p", "n", "g">> \in DOMAIN outdirs[<<"/", "t", "m", "p", "/", "t", "m", "p", "1">>]
  /\ outdirs[<<"/", "t", "m", "p", "/", "t", "m", "p", "1">>][<<"i", "n", "d", "e", "x", ".", "h", "t", "m", "l">>].text[2] = <<"s", "c", "a", "l", "a", "r", "_", "w", "i", "n", "d", "_", "t", "_", "8", "5", "0", "_", "2", "0", "2", "5", "-", "0", "3", "-", "0", "2", "_", "0", "0", "-", "0", "0", "-", "0", "0", ".", "p", "n", "g">>

\* the last call of run_analysis_plots had accepted arguments and asked for
\* the example data: download_data=False and no datafile
ExampleCall ==
  /\ run.made
  /\ ~InvalidArguments
  /\ ~run.args.download_data
  /\ run.args.datafile = None

\* the call used the example file of its plot type: no cache call and no
\* download, cfg.datafile is the file, and the writer was called with it
UsedExample(file) ==
  /\ run.cache_calls = <<>>
  /\ run.downloads = <<>>
  /\ fs = run.files_before
  /\ cfg_datafile = file
  /\ Len(run.writer_calls) = 1
  /\ run.writer_calls[1].datafile = file

\* C26: a call of run_analysis_plots with download_data=False and
\* datafile=None takes, for each of scalar_wind, skewT and vert_cross, the
\* example dataset of the plot type, sets cfg.datafile to it and goes on to
\* the plot writer, without a call of the cache or the download collaborator
C26_ExampleData ==
  ExampleCall =>
    \E file \in {scalar_wind_datafile, skewT_datafile} : UsedExample(file)

\* what the code does for scalar_wind and skewT: the example file of
\* cfg.py 40-41 is used
C26_ExampleDataOfTwo ==
  (ExampleCall /\ run.args.plot_type \in {"scalar_wind", "skewT"}) =>
    UsedExample(IF run.args.plot_type = "scalar_wind" THEN scalar_wind_datafile
                ELSE skewT_datafile)

\* what the code does for vert_cross: line 148 reads cfg.vert_cross_datafile,
\* which cfg.py does not define, and the call ends there
C26_VertCrossRaises ==
  (ExampleCall /\ run.args.plot_type = "vert_cross") =>
    /\ run.result.kind = "raise"
    /\ run.result.type = "AttributeError"
    /\ NoSideEffect

\* the last call of run_analysis_plots had accepted arguments, a datafile of
\* the caller's and download_data=False
OwnDatafile ==
  /\ run.made
  /\ ~InvalidArguments
  /\ ~run.args.download_data
  /\ run.args.datafile # None

\* C28: a call of run_analysis_plots with a datafile and download_data=False
\* sets cfg.datafile to that file and passes it to the plot writer, and
\* calls neither Era5Cache.get_analysis_plots_data nor the download
\* collaborator
C28_OwnDatafile ==
  OwnDatafile =>
    /\ run.cache_calls = <<>>
    /\ run.downloads = <<>>
    /\ Len(run.writer_calls) = 1
    /\ run.writer_calls[1].datafile = run.args.datafile
    /\ cfg_datafile = run.args.datafile

\* what the code does: line 137 takes the example data only when there is no
\* datafile, so a datafile sends the call to the cache (lines 152-185), whose
\* result replaces it
C28_OwnDatafileReplaced ==
  OwnDatafile =>
    /\ Len(run.cache_calls) = 1
    /\ \A i \in 1..Len(run.writer_calls) :
         /\ run.writer_calls[i].datafile # run.args.datafile
         /\ run.writer_calls[i].datafile = run.cache_calls[1].returned
    /\ cfg_datafile \in {run.datafile_before, run.cache_calls[1].returned}

\* the cache call of the last call of run_analysis_plots raised
CacheRaised ==
  /\ run.made
  /\ run.cache_calls # <<>>
  /\ run.result.kind = "raise"
  /\ run.writer_calls = <<>>
  /\ run.cache_calls[1].returned = NoPath

\* C30: cfg.datafile changes only when the data were resolved: a call of
\* run_analysis_plots that fails in the validation of its arguments, or
\* because Era5Cache.get_analysis_plots_data raises (time missing, download
\* failed), leaves cfg.datafile as it was and calls no plot writer; and a
\* cfg.datafile that changed is the example file or the path the cache returned
C30_DatafileKept ==
  /\ (InvalidArguments \/ (run.made /\ run.cache_calls # <<>>
                              /\ run.cache_calls[1].returned = NoPath)) =>
       /\ run.result.kind = "raise"
       /\ cfg_datafile = run.datafile_before
       /\ run.writer_calls = <<>>
  /\ (run.made /\ cfg_datafile # run.datafile_before) =>
       \/ run.cache_calls = <<>> /\ cfg_datafile \in {scalar_wind_datafile, skewT_datafile}
       \/ run.cache_calls # <<>> /\ cfg_datafile = run.cache_calls[1].returned
                                 /\ cfg_datafile.name \in DOMAIN fs

\* a call with download_data=True whose download failed, made when
\* cfg.datafile was the file of an earlier call
C30_Witness ==
  /\ CacheRaised
  /\ run.args.download_data
  /\ run.args.time # None
  /\ Len(run.downloads) = 1
  /\ run.result.type = "RuntimeError"
  /\ run.datafile_before # None
  /\ cfg_datafile = run.datafile_before

\* the last call of an HTML writer was one of write_scalar_with_wind_html
\* without a time and with an index in the bounds of valid_time, with a data
\* file and collaborators that do not fail
TimeIndexCall ==
  /\ html.made
  /\ html.args.writer = "write_scalar_with_wind_html"
  /\ html.args.time = None
  /\ html.args.time_index.t = "int"
  /\ html.args.time_index.v \in 0..(Len(html.env.dataset.valid_time) - 1)
  /\ html.args.datafile # None
  /\ html.env.fails = "none"

\* C25: write_scalar_with_wind_html called with time=None takes the time
\* slice at the position time_index of valid_time, and the call succeeds for
\* every index in the bounds of that dimension
C25_TimeIndexFallback ==
  TimeIndexCall =>
    /\ Written
    /\ html.png = <<"s", "c", "a", "l", "a", "r", "_", "w", "i", "n", "d", "_", "t", "_", "8", "5", "0", "_">> \o int_str(html.args.time_index.v) \o <<".", "p", "n", "g">>

\* what the code does: line 119 passes the index as time= to
\* check_data_availability, which reads it as a time, the index in
\* nanoseconds after the epoch: the call raises ValueError before it makes a
\* directory, unless that time is one of valid_time
C25_IndexReadAsTime ==
  TimeIndexCall =>
    IF [ok |-> TRUE, date |-> epoch, ns |-> html.args.time_index.v] \in valid_times(html.env.dataset)
    THEN Written
    ELSE /\ html.result = Raise("ValueError", <<"T", "i", "m", "e", " ", "n", "o", "t", " ", "a", "v", "a", "i", "l", "a", "b", "l", "e">>)
         /\ outdirs = html.dirs_before

\* C27: each of write_scalar_with_wind_html, write_skewT_html and
\* write_vert_cross_html called with datafile=None raises the ValueError for
\* the missing data file before anything else: no directory is made, no PNG
\* and no index.html is written, and the data are not read, so that neither
\* a failing check nor the content of a data file changes the error
C27_NoDatafile ==
  (html.made /\ html.args.datafile = None) =>
    /\ html.result = no_datafile
    /\ html.result.type = "ValueError"
    /\ outdirs = html.dirs_before
    /\ mkdtemp(tmpcount) \notin DOMAIN outdirs
    /\ tmpcount = Cardinality({d \in DOMAIN outdirs : d # out_dir})
    /\ html.png = <<>>

\* write_vert_cross_html without a data file and without a directory, with a
\* check that would fail, after a call that made a directory
C27_Witness ==
  /\ html.made
  /\ html.args.datafile = None
  /\ html.args.writer = "write_vert_cross_html"
  /\ html.args.directory = None
  /\ html.env.fails = "check"
  /\ html.dirs_before # NoDirs
  /\ outdirs = html.dirs_before
  /\ html.result = no_datafile

\* the request mapping of a call that returned
resolved_request(r) == request_dict(r.variables, r.level, to_datetime(r.time))

\* two level sequences with the same levels in another order
reordered(l1, l2) ==
  /\ l1.t \in {"list", "tuple"} /\ l2.t \in {"list", "tuple"}
  /\ Len(l1.v) = Len(l2.v)
  /\ {l1.v[i] : i \in 1..Len(l1.v)} = {l2.v[i] : i \in 1..Len(l2.v)}
  /\ l1.v # l2.v

\* C23: a sequence of levels is converted element by element, in the order
\* given, so two calls whose level sequences hold the same levels in another
\* order ([850, 500] and [500, 850]) have different request mappings and
\* different target files, and the second one downloads although the file of
\* the first is there
C23_LevelOrder ==
  \A r \in resolved :
    (Targeted /\ last.variables = r.variables /\ last.time = r.time
       /\ reordered(last.level, r.level)) =>
      /\ dict_get(last.req_dict, key_of["pressure_level"])
           = PyList([i \in 1..Len(last.level.v) |-> PyStr(int_str(last.level.v[i].v))])
      /\ last.req_dict # resolved_request(r)
      /\ last.target.name # r.path.name
      /\ DOMAIN pre = {r.path.name} =>
           /\ Len(last.downloads) = 1
           /\ last.downloads[1].target = last.target

\* a call with the levels [500, 850] after one with [850, 500] that returned,
\* both for the same time: two files
C23_Witness ==
  /\ ncalls = 2
  /\ Targeted
  /\ last.level = PyList(<<PyInt(500), PyInt(850)>>)
  /\ \E r \in resolved : /\ r.level = PyList(<<PyInt(850), PyInt(500)>>)
                          /\ r.time = last.time /\ r.variables = last.variables
                          /\ DOMAIN pre = {r.path.name}
  /\ Len(last.downloads) = 1
  /\ last.result = Return(last.target)
  /\ Cardinality(DOMAIN fs) = 2

\* two times of one calendar hour that differ in the minutes
same_hour(t1, t2) ==
  /\ t1.t = "str" /\ t2.t = "str"
  /\ to_datetime(t1).ok /\ to_datetime(t2).ok
  /\ SubSeq(t1.v, 1, 13) = SubSeq(t2.v, 1, 13)
  /\ t1 # t2

\* C24: the request has the hour of the time and no minutes, so two calls with
\* the same variables and level whose times are in the same calendar hour
\* build the same request mapping and the same target path, and the second
\* one returns the file of the first without a download
C24_HourTruncation ==
  \A r \in resolved :
    (Targeted /\ last.variables = r.variables /\ last.level = r.level
       /\ same_hour(last.time, r.time)) =>
      /\ dict_get(last.req_dict, key_of["time"])
           = PyList(<<PyStr(SubSeq(last.time.v, 12, 13) \o <<":", "0", "0">>)>>)
      /\ last.req_dict = resolved_request(r)
      /\ last.target = r.path
      /\ r.path.name \in DOMAIN pre =>
           /\ last.result = Return(r.path)
           /\ last.downloads = <<>>
           /\ fs = pre

\* a call for 13:05 after one for 13:30 of the same day that downloaded
C24_Witness ==
  /\ ncalls = 2
  /\ Targeted
  /\ last.time = PyStr(<<"2", "0", "2", "5", "-", "1", "2", "-", "0", "1", "T", "1", "3", ":", "0", "5">>)
  /\ \E r \in resolved : /\ r.time = PyStr(<<"2", "0", "2", "5", "-", "1", "2", "-", "0", "1", "T", "1", "3", ":", "3", "0">>)
                          /\ r.level = last.level /\ r.variables = last.variables
                          /\ last.result = Return(r.path)
  /\ last.downloads = <<>>
  /\ DOMAIN fs = {last.target.name}
  /\ fs[last.target.name] = "data"

\* the level that a level argument of one level stands for: an int, a list or
\* a tuple of one int, or the digits of the int; 0 for another argument
single_level(level) ==
  IF level.t = "int" THEN level.v
  ELSE IF level.t \in {"list", "tuple"} /\ Len(level.v) = 1 /\ level.v[1].t = "int"
  THEN level.v[1].v
  ELSE IF level.t = "str" /\ level.v # <<>> /\ \A i \in 1..Len(level.v) : is_digit(level.v[i])
  THEN parse_int(level.v)
  ELSE 0

\* C29: one level L given as the int L, the list [L], the tuple (L,) or the
\* string of L, with the same variables and time, gives the same request
\* mapping and the same target path, so a call in one of these forms returns
\* the file of a call in another form without a download
C29_LevelForms ==
  \A r \in resolved :
    (Targeted /\ last.variables = r.variables /\ last.time = r.time
       /\ single_level(last.level) # 0
       /\ single_level(last.level) = single_level(r.level)) =>
      /\ dict_get(last.req_dict, key_of["pressure_level"])
           = PyList(<<PyStr(int_str(single_level(last.level)))>>)
      /\ last.req_dict = resolved_request(r)
      /\ last.target = r.path
      /\ r.path.name \in DOMAIN pre =>
           /\ last.result = Return(r.path)
           /\ last.downloads = <<>>

\* a call with the level "850" after one with the tuple (850,) that
\* downloaded, and the other two forms have the same target
C29_Witness ==
  /\ ncalls = 2
  /\ Targeted
  /\ last.level = PyStr(<<"8", "5", "0">>)
  /\ \E r \in resolved : /\ r.level = PyTuple(<<PyInt(850)>>)
                          /\ r.time = last.time /\ r.variables = last.variables
                          /\ last.result = Return(r.path)
  /\ last.downloads = <<>>
  /\ DOMAIN fs = {last.target.name}
  /\ \A l \in {PyInt(850), PyList(<<PyInt(850)>>)} :
       target_path(cache_dir, prepared[<<last.variables, l, last.time>>].key) = last.target

\* the process p is past line 126
PastDownload(p) == race.proc[p].pc \in {"writing", "verify", "done"}

\* the downloads that wrote the file of a name to the end, in their order
finished_for(name) == SelectSeq(race.finished, LAMBDA f : f.name = name)

\* the processes 1 and 2 had the same target, saw it absent, and their
\* downloads wrote the file to the end
BothWrote ==
  /\ race.proc[1].target = race.proc[2].target
  /\ \A p \in {1, 2} : race.proc[p].saw = "absent" /\ race.proc[p].pc = "done"
  /\ {f.proc : f \in {finished_for(race.proc[1].target.name)[i] :
                        i \in 1..Len(finished_for(race.proc[1].target.name))}} = {1, 2}

\* C21: no lock is taken, so of calls at once for the same request each one
\* that found the target absent calls the download collaborator, once and for
\* the same target path, whatever the others have done since, and returns the
\* path when its download wrote the file; a file that a download wrote to the
\* end is the one of the download that ended last, and is complete when no
\* other download is writing it
C21_ConcurrentMiss ==
  /\ \A p \in Procs :
       (race.proc[p].saw = "absent" /\ PastDownload(p)) =>
         /\ Len(race.proc[p].downloads) = 1
         /\ race.proc[p].downloads[1].target = race.proc[p].target
         /\ race.proc[p].downloads[1].request = prepared[race.proc[p].args].req_dict
  /\ \A p \in Procs : race.proc[p].saw # "absent" => race.proc[p].downloads = <<>>
  /\ \A i \in 1..Len(race.finished) :
       race.proc[race.finished[i].proc].pc = "done" =>
         race.proc[race.finished[i].proc].result = Return(race.proc[race.finished[i].proc].target)
  /\ \A n \in DOMAIN race.files :
       race.files[n].by # 0 =>
         /\ race.files[n].by = finished_for(n)[Len(finished_for(n))].proc
         /\ race.files[n].content = "data" <=> race.files[n].writing = {}

\* two calls for 13:30 and 13:05 of one day, the same request: both found the
\* target absent, both downloaded to the one path, and the download of the
\* first process ended after the one of the second
C21_Witness ==
  /\ BothWrote
  /\ race.proc[1].args[3] = PyStr(<<"2", "0", "2", "5", "-", "1", "2", "-", "0", "1", "T", "1", "3", ":", "3", "0">>)
  /\ race.proc[2].args[3] = PyStr(<<"2", "0", "2", "5", "-", "1", "2", "-", "0", "1", "T", "1", "3", ":", "0", "5">>)
  /\ \A p \in Procs : Len(race.proc[p].downloads) = 1
  /\ race.proc[1].downloads[1] = race.proc[2].downloads[1]
  /\ Len(race.finished) = 2
  /\ race.finished[1].proc = 2
  /\ race.finished[2].proc = 1
  /\ race.files[race.proc[1].target.name].content = "data"
  /\ DOMAIN race.files = {race.proc[1].target.name}
  /\ race.files[race.proc[1].target.name].by = 1

\* the process p returned a path
Returned(p) == race.proc[p].pc = "done" /\ race.proc[p].result.kind = "return"

\* C22: of calls at once on one cache directory for the same request digest,
\* each one that returns a path returns a file that is written to the end:
\* none returns a file that the download of another call is still writing
C22_ReturnedComplete ==
  \A p \in Procs :
    Returned(p) =>
      /\ race.proc[p].seen.content = "data"
      /\ race.proc[p].seen.writing = {}

\* what the code does: the path returned is one of a file that exists when
\* it is returned (lines 122 and 129), whatever the file holds
C22_ReturnedExists ==
  \A p \in Procs :
    Returned(p) =>
      /\ race.proc[p].result = Return(race.proc[p].target)
      /\ race.proc[p].seen # NoFile
      /\ race.proc[p].target.name \in DOMAIN race.files

====
